---- MODULE Spec2Model ----
(***************************************************************************)
(* Model of lib/file.js of cds-typer: Buffer, Path, SourceFile and their   *)
(* serializers.                                                            *)
(*                                                                         *)
(* Text is modelled as a sequence of tokens (Str): the empty string is     *)
(* <<>>, string concatenation is \o, and no token is itself empty.  A      *)
(* token of an indentation prefix is one character, so that Len is the     *)
(* JavaScript .length of the prefix.  An object is a record, a method is   *)
(* an operator from the object (and its arguments) to the outcome of the   *)
(* call: [threw, <object after the call>, ret].                            *)
(***************************************************************************)
EXTENDS Integers, Sequences, FiniteSets, TLC

VARIABLES
    buf,        \* SpecBuffer: the one Buffer under test
    nIndent,    \* SpecBuffer: indent() calls made on buf
    nOutdent,   \* SpecBuffer: outdent() calls on buf that returned
    last,       \* the outcome of the last call: [op, threw, ...]
    calls,      \* number of calls made so far
    pathSep,    \* path.sep of the platform
    sf,         \* the SourceFile under test
    refs,       \* names of the sub-namespace buffers the driver holds a reference to
    early,      \* names of the sub-namespaces requested before any toTypeDefs call
    phase,      \* "walk": no toTypeDefs call yet; "failed": toTypeDefs was called
                \* and has only thrown; "serialized": a toTypeDefs call has returned
    sfB,        \* SpecOrder: a second SourceFile, given the calls of sf in another order
    pending,    \* SpecOrder: per category, the calls made on sf and not yet on sfB
    replayed,   \* SpecOrder: the highest number of the calls made on sfB so far, and
                \* whether sfB was given a call after one of a higher number
    added,      \* the enums added to sf so far, in the order of the calls
    wo,         \* SpecWriteout: the writeout call, its tasks and the file system
    lib         \* SpecLibrary: the Library under test

bufVars == <<buf, nIndent, nOutdent>>
fileVars == <<sf, refs, early, phase>>
orderVars == <<sfB, pending, replayed>>
driverVars == <<added, wo, lib>>
vars == <<buf, nIndent, nOutdent, last, calls, pathSep, sf, refs, early, phase,
          sfB, pending, replayed, added, wo, lib>>

\* no Library has been constructed
NoLibrary == [file |-> <<>>]

\* no writeout call has been made
NoWriteout ==
    [settled |-> "idle", root |-> <<>>, sources |-> <<>>, tasks |-> <<>>,
     dirs |-> {}, disk |-> {}, logged |-> {}, result |-> <<>>]

(***************************************************************************)
(* Bounds of the model.                                                    *)
(***************************************************************************)
MaxBufferCalls == 5

(***************************************************************************)
(* Strings.                                                                *)
(***************************************************************************)
NL == "\n"

Max(a, b) == IF a >= b THEN a ELSE b

\* String.prototype.slice(0, -n): -0 is 0, so slice(0, -0) is ''.
SliceDropLast(s, n) ==
    IF n = 0 THEN <<>> ELSE SubSeq(s, 1, Max(Len(s) - n, 0))

\* Array.prototype.join(glue) on an array of strings.  The array is evaluated
\* before the call, as the arguments of a call are: JoinStr binds its value.
RECURSIVE JoinStr(_, _)
JoinValue(strs, glue) ==
    IF strs = <<>> THEN <<>>
    ELSE IF Len(strs) = 1 THEN strs[1]
    ELSE strs[1] \o glue \o JoinStr(Tail(strs), glue)

JoinStr(strs, glue) == CHOOSE r \in {JoinValue(v, glue) : v \in {strs}} : TRUE

(***************************************************************************)
(* class Buffer                                                            *)
(***************************************************************************)
DefaultIndentation == <<" ", " ">>

\* `closed` is no field the constructor sets: it reads as undefined (falsy)
\* until getSubNamespace sets it, which FALSE stands for.
NewBuffer(indentation) ==
    [parts |-> <<>>, indentation |-> indentation, currentIndent |-> <<>>,
     closed |-> FALSE]

\* an indent that moves the stored lines along with the prefix
indentStored(b) ==
    [b EXCEPT !.currentIndent = @ \o b.indentation,
              !.parts = [i \in DOMAIN @ |-> b.indentation \o @[i]]]

indent(b) == [b EXCEPT !.currentIndent = @ \o b.indentation]

outdentUnguarded(b) ==
    [threw |-> FALSE,
     buffer |-> [b EXCEPT !.currentIndent = SliceDropLast(@, Len(b.indentation))]]

outdent(b) ==
    IF Len(b.currentIndent) = 0
    THEN [threw |-> TRUE, buffer |-> b]
    ELSE [threw |-> FALSE,
          buffer |-> [b EXCEPT !.currentIndent = SliceDropLast(@, Len(b.indentation))]]

join(b, glue) == JoinStr(b.parts, glue)

clear(b) == [b EXCEPT !.parts = <<>>]

add(b, part) == [b EXCEPT !.parts = Append(@, b.currentIndent \o part)]

(***************************************************************************)
(* class Path, with the functions of Node's path module it calls.          *)
(* pathSep is path.sep of the platform the program runs on; path.posix.sep *)
(* is "/".  A directory string is its characters' tokens: "." "/" and one  *)
(* token per segment name (".." is one token).                             *)
(***************************************************************************)
PosixSep == "/"

\* String.prototype.split(separator), for a separator out of seps; the string
\* is evaluated before the call: SplitStr binds its value
RECURSIVE SplitStr(_, _)
SplitValue(s, seps) ==
    IF \A i \in 1..Len(s) : s[i] \notin seps
    THEN <<s>>
    ELSE LET i == CHOOSE k \in 1..Len(s) :
                    /\ s[k] \in seps
                    /\ \A j \in 1..(k - 1) : s[j] \notin seps
         IN <<SubSeq(s, 1, i - 1)>> \o SplitStr(SubSeq(s, i + 1, Len(s)), seps)

SplitStr(s, seps) == CHOOSE r \in {SplitValue(v, seps) : v \in {s}} : TRUE

\* path.normalize on a list of segments: '' and '.' vanish, '..' takes back
\* the segment before it (and stays when there is none to take back)
RECURSIVE NormSegs(_, _)
NormSegs(segs, acc) ==
    IF segs = <<>> THEN acc
    ELSE LET h == Head(segs) IN
         IF h = <<>> \/ h = <<".">> THEN NormSegs(Tail(segs), acc)
         ELSE IF h = <<"..">> /\ acc # <<>> /\ acc[Len(acc)] # <<"..">>
              THEN NormSegs(Tail(segs), SubSeq(acc, 1, Len(acc) - 1))
              ELSE NormSegs(Tail(segs), Append(acc, h))

\* path.join(...parts): '.' when nothing is left
PathJoin(parts) ==
    LET segs == NormSegs(parts, <<>>) IN
    IF segs = <<>> THEN <<".">> ELSE JoinStr(segs, <<pathSep>>)

\* path.resolve against the working directory, as segments below it
PathResolve(dir) == NormSegs(SplitStr(dir, {PosixSep, pathSep}), <<>>)

RECURSIVE CommonPrefixLen(_, _)
CommonPrefixLen(a, b) ==
    IF a = <<>> \/ b = <<>> \/ Head(a) # Head(b) THEN 0
    ELSE 1 + CommonPrefixLen(Tail(a), Tail(b))

\* path.relative(from, to)
PathRelative(from, to) ==
    LET f == PathResolve(from)
        t == PathResolve(to)
        k == CommonPrefixLen(f, t)
        ups == [i \in 1..(Len(f) - k) |-> <<"..">>]
    IN JoinStr(ups \o SubSeq(t, k + 1, Len(t)), <<pathSep>>)

\* `kind` is the constructor's second argument, unused by every method
NewPath(parts, kind) == [parts |-> parts, kind |-> kind]

getParent(p) == NewPath(SubSeq(p.parts, 1, Max(Len(p.parts) - 1, 0)), "undefined")

\* asDirectory({relative, local, posix}); an undefined `relative` is <<>>:
\* the code reads only whether it is truthy, and '' is falsy as well
asDirectoryOf(p, relative, local, posix) ==
    LET sep == IF posix THEN PosixSep ELSE pathSep
        prefix == IF local THEN <<".", sep>> ELSE <<>>
        absolute == PathJoin(p.parts)
        rel == IF relative # <<>> THEN PathRelative(relative, absolute) ELSE absolute
        q == IF posix THEN JoinStr(SplitStr(rel, {pathSep}), <<PosixSep>>) ELSE rel
    IN prefix \o q

\* asDirectory() and asDirectory({relative}) with the defaults local, posix
asDirectory(p, relative) == asDirectoryOf(p, relative, TRUE, TRUE)

asNamespace(p) == JoinStr(p.parts, <<".">>)

asIdentifier(p) == <<"_">> \o JoinStr(p.parts, <<"_">>)

isCwdNever(p, relative) == FALSE

\* an isCwd whose first case does not ask whether a reference is given
isCwdWithoutSegments(p, relative) ==
    \/ Len(p.parts) = 0
    \/ (relative # <<>> /\ asDirectory(p, relative) = <<".", "/">>)

isCwd(p, relative) ==
    \/ (relative = <<>> /\ Len(p.parts) = 0)
    \/ (relative # <<>> /\ asDirectory(p, relative) = <<".", "/">>)

(***************************************************************************)
(* components/enum and components/identifier, which lib/file.js requires.  *)
(***************************************************************************)
RenderKvs(kvs) == JoinStr([i \in 1..Len(kvs) |-> kvs[i][1] \o <<": ">> \o kvs[i][2]], <<", ">>)

\* printEnum(buffer, name, kvs, {export}): appends the declaration of the enum
printEnum(buffer, name, kvs, export) ==
    add(buffer, (IF export THEN <<"export ">> ELSE <<>>)
                \o <<"const ">> \o name \o <<" = { ">> \o RenderKvs(kvs) \o <<" }">>)

propertyToInlineEnumName(entity, property) == entity \o <<"_">> \o property

stringifyEnumImplementation(name, kvs) ==
    <<"module.exports.">> \o name \o <<" = { ">> \o RenderKvs(kvs) \o <<" }">>

\* normalise(ident): a name that is no bare identifier is put in quotes
BareIdentifiers == {<<"f">>, <<"g">>, <<"p">>, <<"q">>}
normalise(ident) ==
    IF ident \in BareIdentifiers THEN ident ELSE <<"\"">> \o ident \o <<"\"">>

(***************************************************************************)
(* class SourceFile                                                        *)
(*                                                                         *)
(* An object used as a dictionary (imports, namespaces, classNames,        *)
(* typeNames) is the sequence of its entries [key, value] in insertion     *)
(* order, which is the order Object.values lists them in (no key of the    *)
(* model is an integer index or a name Object.prototype defines).          *)
(***************************************************************************)
AUTO_GEN_NOTE == <<"// This is an automatically generated file. Please do not change its contents manually!">>

HasKey(obj, key) == \E i \in 1..Len(obj) : obj[i].key = key

Lookup(obj, key) == obj[CHOOSE i \in 1..Len(obj) : obj[i].key = key].value

\* names every object inherits from Object.prototype (those the model uses)
ObjectPrototypeNames == {<<"constructor">>, <<"toString">>}

\* key in obj: own entries and inherited names
In(obj, key) == HasKey(obj, key) \/ key \in ObjectPrototypeNames

\* obj[key] of a key that is in obj: the entry's value, or the inherited function
Get(obj, key) ==
    IF HasKey(obj, key) THEN Lookup(obj, key) ELSE [inherited |-> key]

\* obj[key] = value
Assign(obj, key, value) ==
    IF HasKey(obj, key)
    THEN [i \in 1..Len(obj) |->
            IF obj[i].key = key THEN [key |-> key, value |-> value] ELSE obj[i]]
    ELSE Append(obj, [key |-> key, value |-> value])

\* Object.values(obj)
Values(obj) == [i \in 1..Len(obj) |-> obj[i].value]

NewSourceFile(path) ==
    [path |-> NewPath(SplitStr(path, {"."}), "undefined"),
     imports |-> <<>>,
     preamble |-> NewBuffer(DefaultIndentation),
     events |-> [buffer |-> NewBuffer(DefaultIndentation), fqs |-> <<>>],
     types |-> NewBuffer(DefaultIndentation),
     enums |-> [buffer |-> NewBuffer(DefaultIndentation), data |-> <<>>],
     inlineEnums |-> [buffer |-> NewBuffer(DefaultIndentation)],
     classes |-> NewBuffer(DefaultIndentation),
     actions |-> [buffer |-> NewBuffer(DefaultIndentation), names |-> <<>>],
     aspects |-> NewBuffer(DefaultIndentation),
     namespaces |-> <<>>,
     classNames |-> <<>>,
     typeNames |-> <<>>,
     inflections |-> <<>>,
     services |-> [buffer |-> NewBuffer(DefaultIndentation), names |-> <<>>]]

\* a lambda whose __parameters object lists the types alone
stringifyLambdaTypesOnly(name, parameters, returns, initialiser, isStatic) ==
    LET parameterTypes ==
            JoinStr([i \in 1..Len(parameters) |->
                        normalise(parameters[i][1]) \o <<": ">> \o parameters[i][2]],
                    <<", ">>)
        types == JoinStr([i \in 1..Len(parameters) |-> parameters[i][2]], <<", ">>)
        callableSignature == <<"(">> \o parameterTypes \o <<"): ">> \o returns
        prefix0 == IF name # <<>> THEN normalise(name) \o <<": ">> ELSE <<>>
        prefix == IF prefix0 # <<>> /\ isStatic THEN <<"static ">> \o prefix0 ELSE prefix0
        suffix == IF initialiser # <<>> THEN <<" = ">> \o initialiser ELSE <<>>
        lambda == <<"{ ">> \o callableSignature \o <<", __parameters: {">> \o types
                  \o <<"}, __returns: ">> \o returns \o <<" }">>
    IN prefix \o lambda \o suffix

\* stringifyLambda({name, parameters, returns, initialiser, isStatic});
\* an absent name or initialiser is <<>> (read for truthiness alone)
stringifyLambda(name, parameters, returns, initialiser, isStatic) ==
    LET parameterTypes ==
            JoinStr([i \in 1..Len(parameters) |->
                        normalise(parameters[i][1]) \o <<": ">> \o parameters[i][2]],
                    <<", ">>)
        callableSignature == <<"(">> \o parameterTypes \o <<"): ">> \o returns
        prefix0 == IF name # <<>> THEN normalise(name) \o <<": ">> ELSE <<>>
        prefix == IF prefix0 # <<>> /\ isStatic THEN <<"static ">> \o prefix0 ELSE prefix0
        suffix == IF initialiser # <<>> THEN <<" = ">> \o initialiser ELSE <<>>
        lambda == <<"{ ">> \o callableSignature \o <<", __parameters: {">> \o parameterTypes
                  \o <<"}, __returns: ">> \o returns \o <<" }">>
    IN prefix \o lambda \o suffix

addInflection(f, singular, plural, original) ==
    [f EXCEPT !.inflections = Append(@, <<singular, plural, original>>)]

addFunction(f, name, parameters, returns) ==
    [f EXCEPT
        !.actions.buffer =
            add(add(@, <<"// function">>),
                <<"export declare const ">>
                  \o stringifyLambda(name, parameters, returns, <<>>, FALSE) \o <<";">>),
        !.actions.names = Append(@, name)]

addAction(f, name, parameters, returns) ==
    [f EXCEPT
        !.actions.buffer =
            add(add(@, <<"// action">>),
                <<"export declare const ">>
                  \o stringifyLambda(name, parameters, returns, <<>>, FALSE) \o <<";">>),
        !.actions.names = Append(@, name)]

getSubNamespaceUnchecked(f, name) ==
    LET created ==
            IF ~HasKey(f.namespaces, name)
            THEN Assign(f.namespaces, name,
                        indent(add([NewBuffer(DefaultIndentation) EXCEPT !.closed = FALSE],
                                   <<"export namespace ">> \o name \o <<" {">>)))
            ELSE f.namespaces
    IN [threw |-> FALSE, file |-> [f EXCEPT !.namespaces = created],
        ret |-> Lookup(created, name)]

\* returns the buffer of the entry of `name`: ret is the entry's value
getSubNamespace(f, name) ==
    LET created ==
            IF ~In(f.namespaces, name)
            THEN Assign(f.namespaces, name,
                        indent(add([NewBuffer(DefaultIndentation) EXCEPT !.closed = FALSE],
                                   <<"export namespace ">> \o name \o <<" {">>)))
            ELSE f.namespaces
        buffer == Get(created, name)
    IN IF "closed" \in DOMAIN buffer /\ buffer.closed
       THEN [threw |-> TRUE, file |-> [f EXCEPT !.namespaces = created]]
       ELSE [threw |-> FALSE, file |-> [f EXCEPT !.namespaces = created], ret |-> buffer]

addEnum(f, fq, name, kvs) ==
    [f EXCEPT
        !.enums.data = Append(@, [name |-> name, fq |-> fq, kvs |-> kvs]),
        !.enums.buffer = printEnum(@, name, kvs, TRUE)]

addInlineEnum(f, entityCleanName, entityFqName, propertyName, kvs) ==
    [f EXCEPT
        !.enums.data = Append(@, [name |-> entityCleanName \o <<".">> \o propertyName,
                                  property |-> propertyName,
                                  kvs |-> kvs,
                                  fq |-> entityCleanName \o <<".">> \o propertyName]),
        !.inlineEnums.buffer =
            printEnum(@, propertyToInlineEnumName(entityCleanName, propertyName), kvs, FALSE)]

addClass(f, clean, fq) == [f EXCEPT !.classNames = Assign(@, clean, fq)]

\* an addEvent that keeps one entry per event name
addEventOnce(f, name, fq) ==
    IF \E i \in 1..Len(f.events.fqs) : f.events.fqs[i].name = name
    THEN f
    ELSE [f EXCEPT !.events.fqs = Append(@, [name |-> name, fq |-> fq])]

addEvent(f, name, fq) == [f EXCEPT !.events.fqs = Append(@, [name |-> name, fq |-> fq])]

\* an addImport that puts a new directory before those registered earlier
addImportFirst(f, imp) ==
    LET dir == asDirectory(imp, asDirectory(f.path, <<>>)) IN
    IF ~HasKey(f.imports, dir)
    THEN [f EXCEPT !.imports = <<[key |-> dir, value |-> imp]>> \o @]
    ELSE f

addImportLastWins(f, imp) ==
    [f EXCEPT !.imports = Assign(@, asDirectory(imp, asDirectory(f.path, <<>>)), imp)]

addImport(f, imp) ==
    LET dir == asDirectory(imp, asDirectory(f.path, <<>>)) IN
    IF ~HasKey(f.imports, dir)
    THEN [f EXCEPT !.imports = Assign(@, dir, imp)]
    ELSE f

addPreamble(f, code) == [f EXCEPT !.preamble = add(@, code)]

addTypeIntoClasses(f, fq, clean, rhs) ==
    [f EXCEPT
        !.typeNames = Assign(@, clean, fq),
        !.classes = add(@, <<"export type ">> \o clean \o <<" = ">> \o rhs \o <<";">>)]

addType(f, fq, clean, rhs) ==
    [f EXCEPT
        !.typeNames = Assign(@, clean, fq),
        !.types = add(@, <<"export type ">> \o clean \o <<" = ">> \o rhs \o <<";">>)]

addServiceUnguarded(f, fq) ==
    [threw |-> FALSE, file |-> [f EXCEPT !.services.names = Append(@, fq)]]

addService(f, fq) ==
    IF Len(f.services.names) # 0
    THEN [threw |-> TRUE, file |-> f]
    ELSE [threw |-> FALSE, file |-> [f EXCEPT !.services.names = Append(@, fq)]]

ImportStatement(f, imp) ==
    <<"import * as ">> \o asIdentifier(imp) \o <<" from '">>
        \o asDirectory(imp, asDirectory(f.path, <<>>)) \o <<"';">>

RECURSIVE AddImportsFrom(_, _, _)
AddImportsFrom(f, imps, buffer) ==
    IF imps = <<>> THEN buffer
    ELSE AddImportsFrom(f, Tail(imps),
            IF ~isCwd(Head(imps), asDirectory(f.path, <<>>))
            THEN add(buffer, ImportStatement(f, Head(imps)))
            ELSE buffer)

getImports(f) == AddImportsFrom(f, Values(f.imports), NewBuffer(DefaultIndentation))

\* the loop of toTypeDefs over Object.values(this.namespaces), from entry i
\* on: an outdent that throws ends it, with the entries before i closed
RECURSIVE CloseNamespaces(_, _, _)
CloseNamespaces(nss, i, namespaces) ==
    IF i > Len(nss)
    THEN [threw |-> FALSE, nss |-> nss, namespaces |-> namespaces]
    ELSE LET o == outdent(nss[i].value) IN
         IF o.threw
         THEN [threw |-> TRUE, nss |-> nss, namespaces |-> namespaces]
         ELSE LET ns == [add(o.buffer, <<"}">>) EXCEPT !.closed = TRUE] IN
              CloseNamespaces([nss EXCEPT ![i].value = ns], i + 1,
                              add(namespaces, join(ns, <<NL>>)))

\* [...].filter(Boolean): the empty string is the one falsy string
FilterBoolean(strs) == SelectSeq(strs, LAMBDA x : x # <<>>)

TypeDefSectionsClassesFirst(f, namespaces) ==
    <<AUTO_GEN_NOTE,
      join(getImports(f), <<NL>>),
      join(f.preamble, <<NL>>),
      join(f.services.buffer, <<NL>>),
      join(f.classes, <<NL>>),
      join(f.types, <<NL>>),
      join(f.enums.buffer, <<NL>>),
      join(f.inlineEnums.buffer, <<NL>>),
      join(f.aspects, <<NL>>),
      join(f.events.buffer, <<NL>>),
      join(f.actions.buffer, <<NL>>),
      join(namespaces, <<NL>>)>>

\* the sections of the type definitions, in the order toTypeDefs lists them
TypeDefSections(f, namespaces) ==
    <<AUTO_GEN_NOTE,
      join(getImports(f), <<NL>>),
      join(f.preamble, <<NL>>),
      join(f.services.buffer, <<NL>>),
      join(f.types, <<NL>>),
      join(f.enums.buffer, <<NL>>),
      join(f.inlineEnums.buffer, <<NL>>),
      join(f.aspects, <<NL>>),
      join(f.classes, <<NL>>),
      join(f.events.buffer, <<NL>>),
      join(f.actions.buffer, <<NL>>),
      join(namespaces, <<NL>>)>>

toTypeDefs(f) ==
    LET c == CloseNamespaces(f.namespaces, 1, NewBuffer(DefaultIndentation))
        g == [f EXCEPT !.namespaces = c.nss]
    IN IF c.threw
       THEN [threw |-> TRUE, file |-> g]
       ELSE [threw |-> FALSE, file |-> g,
             ret |-> JoinStr(FilterBoolean(TypeDefSections(g, c.namespaces)), <<NL>>)]

\* a.split('.').length of a singular name
Dots(name) == Len(SplitStr(name, {"."}))

\* Array.prototype.sort with the comparator of toJSExports: stable, in place
RECURSIVE InsertByDots(_, _)
InsertByDots(sorted, t) ==
    IF sorted = <<>> THEN <<t>>
    ELSE IF Dots(t[1]) < Dots(Head(sorted)[1])
         THEN <<t>> \o sorted
         ELSE <<Head(sorted)>> \o InsertByDots(Tail(sorted), t)

RECURSIVE SortByDotsFrom(_, _)
SortByDotsFrom(inflections, sorted) ==
    IF inflections = <<>> THEN sorted
    ELSE SortByDotsFrom(Tail(inflections), InsertByDots(sorted, Head(inflections)))

NoSort(inflections) == inflections

SortByDots(inflections) == SortByDotsFrom(inflections, <<>>)

\* Array.from(new Set(strs)): the first occurrence of each string, in order
RECURSIVE FromSet(_, _)
FromSet(strs, acc) ==
    IF strs = <<>> THEN acc
    ELSE FromSet(Tail(strs),
                 IF \E i \in 1..Len(acc) : acc[i] = Head(strs) THEN acc
                 ELSE Append(acc, Head(strs)))

AliasStatementsNoSet(t) ==
    <<<<"module.exports.">> \o t[1] \o <<" = csn.">> \o t[3],
      <<"module.exports.">> \o t[2] \o <<" = csn.">> \o t[3],
      <<"module.exports.">> \o t[3] \o <<" = csn.">> \o t[3]>>

\* the alias statements of one inflection triple
AliasStatements(t) ==
    FromSet(<<<<"module.exports.">> \o t[1] \o <<" = csn.">> \o t[3],
              <<"module.exports.">> \o t[2] \o <<" = csn.">> \o t[3],
              <<"module.exports.">> \o t[3] \o <<" = csn.">> \o t[3]>>, <<>>)

\* a flatMap whose result holds every statement once
RECURSIVE FlatMapAliasesOnce(_)
FlatMapAliasesOnce(inflections) ==
    IF inflections = <<>> THEN <<>>
    ELSE FromSet(FlatMapAliasesOnce(SubSeq(inflections, 1, Len(inflections) - 1))
                    \o AliasStatements(inflections[Len(inflections)]), <<>>)

\* Array.prototype.flatMap
RECURSIVE FlatMapAliases(_)
FlatMapAliases(inflections) ==
    IF inflections = <<>> THEN <<>>
    ELSE AliasStatements(Head(inflections)) \o FlatMapAliases(Tail(inflections))

JSExportLinesTopLevelEnums(f, sorted) ==
    <<AUTO_GEN_NOTE,
      <<"const cds = require('@sap/cds')">>,
      <<"const csn = cds.entities('">> \o asNamespace(f.path) \o <<"')">>>>
    \o [i \in 1..Len(f.services.names) |->
            <<"module.exports = { name: '">> \o f.services.names[i] \o <<"' }">>]
    \o FlatMapAliases(sorted)
    \o << <<"// events">> >>
    \o [i \in 1..Len(f.events.fqs) |->
            <<"module.exports.">> \o f.events.fqs[i].name \o <<" = '">>
                \o f.events.fqs[i].fq \o <<"'">>]
    \o << <<"// actions">> >>
    \o [i \in 1..Len(f.actions.names) |->
            <<"module.exports.">> \o f.actions.names[i] \o <<" = '">>
                \o f.actions.names[i] \o <<"'">>]
    \o << <<"// enums">> >>
    \o LET data == SelectSeq(f.enums.data, LAMBDA d : "property" \notin DOMAIN d) IN
       [i \in 1..Len(data) |-> stringifyEnumImplementation(data[i].name, data[i].kvs)]

\* a runtime stub whose aliases come before the service record
JSExportLinesAliasesFirst(f, sorted) ==
    <<AUTO_GEN_NOTE,
      <<"const cds = require('@sap/cds')">>,
      <<"const csn = cds.entities('">> \o asNamespace(f.path) \o <<"')">>>>
    \o FlatMapAliases(sorted)
    \o [i \in 1..Len(f.services.names) |->
            <<"module.exports = { name: '">> \o f.services.names[i] \o <<"' }">>]
    \o << <<"// events">> >>
    \o [i \in 1..Len(f.events.fqs) |->
            <<"module.exports.">> \o f.events.fqs[i].name \o <<" = '">>
                \o f.events.fqs[i].fq \o <<"'">>]
    \o << <<"// actions">> >>
    \o [i \in 1..Len(f.actions.names) |->
            <<"module.exports.">> \o f.actions.names[i] \o <<" = '">>
                \o f.actions.names[i] \o <<"'">>]
    \o << <<"// enums">> >>
    \o [i \in 1..Len(f.enums.data) |->
            stringifyEnumImplementation(f.enums.data[i].name, f.enums.data[i].kvs)]

\* the lines of the runtime stub; `sorted` is this.inflections after the sort
JSExportLines(f, sorted) ==
    <<AUTO_GEN_NOTE,
      <<"const cds = require('@sap/cds')">>,
      <<"const csn = cds.entities('">> \o asNamespace(f.path) \o <<"')">>>>
    \o [i \in 1..Len(f.services.names) |->
            <<"module.exports = { name: '">> \o f.services.names[i] \o <<"' }">>]
    \o FlatMapAliases(sorted)
    \o << <<"// events">> >>
    \o [i \in 1..Len(f.events.fqs) |->
            <<"module.exports.">> \o f.events.fqs[i].name \o <<" = '">>
                \o f.events.fqs[i].fq \o <<"'">>]
    \o << <<"// actions">> >>
    \o [i \in 1..Len(f.actions.names) |->
            <<"module.exports.">> \o f.actions.names[i] \o <<" = '">>
                \o f.actions.names[i] \o <<"'">>]
    \o << <<"// enums">> >>
    \o [i \in 1..Len(f.enums.data) |->
            stringifyEnumImplementation(f.enums.data[i].name, f.enums.data[i].kvs)]

toJSExports(f) ==
    LET sorted == SortByDots(f.inflections) IN
    [file |-> [f EXCEPT !.inflections = sorted],
     ret |-> JoinStr(JSExportLines(f, sorted), <<NL>>) \o <<NL>>]

(***************************************************************************)
(* SpecBuffer: one Buffer, constructed with any indentation unit, driven   *)
(* by any sequence of its methods.                                         *)
(***************************************************************************)
IndentationUnits == {<<>>, <<" ">>, <<" ", " ">>, <<"\t">>}
BufferParts == {<<>>, <<"x">>}

InitBuffer ==
    /\ buf \in {NewBuffer(u) : u \in IndentationUnits}
    /\ nIndent = 0
    /\ nOutdent = 0
    /\ last = [op |-> "new", threw |-> FALSE]
    /\ calls = 0
    /\ pathSep = PosixSep
    /\ sf = NewSourceFile(<<"_">>)
    /\ refs = {}
    /\ early = {}
    /\ phase = "walk"
    /\ sfB = NewSourceFile(<<"_">>)
    /\ pending = <<>>
    /\ replayed = [max |-> 0, reordered |-> FALSE]
    /\ added = <<>>
    /\ wo = NoWriteout
    /\ lib = NoLibrary

BufIndent ==
    /\ calls < MaxBufferCalls
    /\ buf' = indent(buf)
    /\ nIndent' = nIndent + 1
    /\ nOutdent' = nOutdent
    /\ last' = [op |-> "indent", threw |-> FALSE]
    /\ calls' = calls + 1
    /\ UNCHANGED <<driverVars, pathSep, fileVars, orderVars>>

BufOutdent ==
    /\ calls < MaxBufferCalls
    /\ LET r == outdent(buf) IN
        /\ buf' = r.buffer
        /\ nOutdent' = IF r.threw THEN nOutdent ELSE nOutdent + 1
        /\ last' = [op |-> "outdent", threw |-> r.threw]
    /\ nIndent' = nIndent
    /\ calls' = calls + 1
    /\ UNCHANGED <<driverVars, pathSep, fileVars, orderVars>>

BufAdd ==
    /\ calls < MaxBufferCalls
    /\ \E part \in BufferParts :
        /\ buf' = add(buf, part)
        /\ last' = [op |-> "add", threw |-> FALSE, part |-> part]
    /\ UNCHANGED <<nIndent, nOutdent>>
    /\ calls' = calls + 1
    /\ UNCHANGED <<driverVars, pathSep, fileVars, orderVars>>

BufJoin ==
    /\ calls < MaxBufferCalls
    /\ last' = [op |-> "join", threw |-> FALSE, ret |-> join(buf, <<NL>>)]
    /\ UNCHANGED <<buf, nIndent, nOutdent>>
    /\ calls' = calls + 1
    /\ UNCHANGED <<driverVars, pathSep, fileVars, orderVars>>

BufClear ==
    /\ calls < MaxBufferCalls
    /\ buf' = clear(buf)
    /\ last' = [op |-> "clear", threw |-> FALSE]
    /\ UNCHANGED <<nIndent, nOutdent>>
    /\ calls' = calls + 1
    /\ UNCHANGED <<driverVars, pathSep, fileVars, orderVars>>

NextBuffer == BufIndent \/ BufOutdent \/ BufAdd \/ BufJoin \/ BufClear

SpecBuffer == InitBuffer /\ [][NextBuffer]_vars

(***************************************************************************)
(* C9: an outdent call made when as many outdents have returned as indents *)
(* were made throws, and leaves the indent prefix and the lines unchanged. *)
(***************************************************************************)
C9_OutdentPastZeroThrows ==
    [][(last'.op = "outdent" /\ nOutdent = nIndent)
        => (last'.threw /\ buf' = buf)]_vars

\* an outdent threw on a buffer that had been indented and outdented before
C9_Witness ==
    /\ last.op = "outdent"
    /\ last.threw
    /\ nIndent >= 1
    /\ nOutdent = nIndent
    /\ Len(buf.indentation) > 0
    /\ buf.parts # <<>>

(***************************************************************************)
(* Spec: one SourceFile 'a.b', driven by any sequence of calls of its      *)
(* mutation API, of writes of the driver to its public buffers and to the  *)
(* sub-namespace buffers getSubNamespace handed out, and of serializations.*)
(***************************************************************************)
MaxCalls == 4

FilePath == <<"a", ".", "b">>
ServiceNames == {<<"S1">>, <<"S2">>}
NamespaceNames == {<<"N1">>, <<"N2">>}
Imports == {NewPath(<< <<"a">>, <<"b">> >>, "undefined"),
            NewPath(<< <<"a">>, <<"c">> >>, "undefined")}
Kvs == << <<<<"k">>, <<"v">>>> >>
Parameters == << <<<<"p">>, <<"T">>>> >>

Init ==
    /\ buf = NewBuffer(DefaultIndentation)
    /\ nIndent = 0
    /\ nOutdent = 0
    /\ last = [op |-> "new", threw |-> FALSE]
    /\ calls = 0
    /\ pathSep = PosixSep
    /\ sf = NewSourceFile(FilePath)
    /\ refs = {}
    /\ early = {}
    /\ phase = "walk"
    /\ sfB = NewSourceFile(<<"_">>)
    /\ pending = <<>>
    /\ replayed = [max |-> 0, reordered |-> FALSE]
    /\ added = <<>>
    /\ wo = NoWriteout
    /\ lib = NoLibrary

\* a call that returned `file` as the SourceFile after it
Returns(op, file) ==
    /\ calls < MaxCalls
    /\ sf' = file
    /\ last' = [op |-> op, threw |-> FALSE]
    /\ calls' = calls + 1
    /\ UNCHANGED <<driverVars, bufVars, orderVars, pathSep, refs, early, phase>>

AddImportFrom(paths) ==
    /\ calls < MaxCalls
    /\ \E imp \in paths :
        /\ sf' = addImport(sf, imp)
        /\ last' = [op |-> "addImport", threw |-> FALSE, imp |-> imp]
    /\ calls' = calls + 1
    /\ UNCHANGED <<driverVars, bufVars, orderVars, pathSep, refs, early, phase>>

AddImport == AddImportFrom(Imports)

AddPreamble == Returns("addPreamble", addPreamble(sf, <<"// preamble">>))

AddType == Returns("addType", addType(sf, <<"a.b.T">>, <<"T">>, <<"string">>))

\* addEnum and addInlineEnum; `added` keeps what was added, in the order of the calls
AddEnumFrom(names) ==
    /\ calls < MaxCalls
    /\ \E name \in names :
        /\ sf' = addEnum(sf, <<"a", ".", "b", ".">> \o name, name, Kvs)
        /\ added' = Append(added, [op |-> "addEnum", name |-> name, kvs |-> Kvs])
    /\ last' = [op |-> "addEnum", threw |-> FALSE]
    /\ calls' = calls + 1
    /\ UNCHANGED <<wo, lib, bufVars, orderVars, pathSep, refs, early, phase>>

AddEnum == AddEnumFrom({<<"E">>})

AddInlineEnumFrom(properties) ==
    /\ calls < MaxCalls
    /\ \E property \in properties :
        /\ sf' = addInlineEnum(sf, <<"Books">>, <<"a.b.Books">>, property, Kvs)
        /\ added' = Append(added, [op |-> "addInlineEnum", entity |-> <<"Books">>,
                                    property |-> property, kvs |-> Kvs])
    /\ last' = [op |-> "addInlineEnum", threw |-> FALSE]
    /\ calls' = calls + 1
    /\ UNCHANGED <<wo, lib, bufVars, orderVars, pathSep, refs, early, phase>>

AddInlineEnum == AddInlineEnumFrom({<<"genre">>})

AddClass == Returns("addClass", addClass(sf, <<"Book">>, <<"a.b.Books">>))

AddEvent == Returns("addEvent", addEvent(sf, <<"Ev">>, <<"a.b.Ev">>))

AddFunction == Returns("addFunction", addFunction(sf, <<"f">>, Parameters, <<"number">>))

AddAction == Returns("addAction", addAction(sf, <<"g">>, Parameters, <<"number">>))

AddInflectionFrom(triples) ==
    \E t \in triples : Returns("addInflection", addInflection(sf, t[1], t[2], t[3]))

AddInflection == AddInflectionFrom({<<<<"Book">>, <<"Books">>, <<"Books">>>>})

\* the driver appends to the buffers no method of SourceFile fills
WriteServices ==
    Returns("services.buffer.add", [sf EXCEPT !.services.buffer = add(@, <<"// service">>)])

WriteAspects == Returns("aspects.add", [sf EXCEPT !.aspects = add(@, <<"// aspect">>)])

WriteClasses == Returns("classes.add", [sf EXCEPT !.classes = add(@, <<"// class">>)])

WriteEvents ==
    Returns("events.buffer.add", [sf EXCEPT !.events.buffer = add(@, <<"// event">>)])

AddService ==
    /\ calls < MaxCalls
    /\ \E fq \in ServiceNames :
        LET r == addService(sf, fq) IN
        /\ sf' = r.file
        /\ last' = [op |-> "addService", threw |-> r.threw, fq |-> fq]
    /\ calls' = calls + 1
    /\ UNCHANGED <<driverVars, bufVars, orderVars, pathSep, refs, early, phase>>

GetSubNamespaceFrom(names) ==
    /\ calls < MaxCalls
    /\ \E name \in names :
        LET r == getSubNamespace(sf, name) IN
        /\ sf' = r.file
        /\ last' = IF r.threw
                   THEN [op |-> "getSubNamespace", threw |-> TRUE, name |-> name]
                   ELSE [op |-> "getSubNamespace", threw |-> FALSE, name |-> name,
                         ret |-> r.ret]
        /\ refs' = IF r.threw THEN refs ELSE refs \cup {name}
        /\ early' = IF ~r.threw /\ phase = "walk" THEN early \cup {name} ELSE early
    /\ calls' = calls + 1
    /\ UNCHANGED <<driverVars, bufVars, orderVars, pathSep, phase>>

GetSubNamespace == GetSubNamespaceFrom(NamespaceNames)

\* the buffer getSubNamespace returned for `name`, as the driver's reference sees it
NsBuffer(f, name) == Lookup(f.namespaces, name)

WithNsBuffer(f, name, buffer) ==
    [f EXCEPT !.namespaces = Assign(@, name, buffer)]

\* the driver writes through a reference it holds: buffer.add(line)
NsAdd ==
    /\ calls < MaxCalls
    /\ \E name \in refs :
        /\ sf' = WithNsBuffer(sf, name, add(NsBuffer(sf, name), <<"// member">>))
        /\ last' = [op |-> "ns.add", threw |-> FALSE, name |-> name]
    /\ calls' = calls + 1
    /\ UNCHANGED <<driverVars, bufVars, orderVars, pathSep, refs, early, phase>>

NsIndent ==
    /\ calls < MaxCalls
    /\ \E name \in refs :
        /\ sf' = WithNsBuffer(sf, name, indent(NsBuffer(sf, name)))
        /\ last' = [op |-> "ns.indent", threw |-> FALSE, name |-> name]
    /\ calls' = calls + 1
    /\ UNCHANGED <<driverVars, bufVars, orderVars, pathSep, refs, early, phase>>

NsOutdent ==
    /\ calls < MaxCalls
    /\ \E name \in refs :
        LET r == outdent(NsBuffer(sf, name)) IN
        /\ sf' = WithNsBuffer(sf, name, r.buffer)
        /\ last' = [op |-> "ns.outdent", threw |-> r.threw, name |-> name]
    /\ calls' = calls + 1
    /\ UNCHANGED <<driverVars, bufVars, orderVars, pathSep, refs, early, phase>>

ToTypeDefs ==
    /\ calls < MaxCalls
    /\ LET r == toTypeDefs(sf) IN
        /\ sf' = r.file
        /\ last' = IF r.threw
                   THEN [op |-> "toTypeDefs", threw |-> TRUE]
                   ELSE [op |-> "toTypeDefs", threw |-> FALSE, ret |-> r.ret]
        /\ phase' = IF ~r.threw THEN "serialized"
                    ELSE IF phase = "walk" THEN "failed" ELSE phase
    /\ calls' = calls + 1
    /\ UNCHANGED <<driverVars, bufVars, orderVars, pathSep, refs, early>>

ToJSExports ==
    /\ calls < MaxCalls
    /\ LET r == toJSExports(sf) IN
        /\ sf' = r.file
        /\ last' = [op |-> "toJSExports", threw |-> FALSE, ret |-> r.ret,
                     registered |-> sf.inflections]
    /\ calls' = calls + 1
    /\ UNCHANGED <<driverVars, bufVars, orderVars, pathSep, refs, early, phase>>

Next ==
    \/ AddImport \/ AddPreamble \/ AddType \/ AddEnum \/ AddInlineEnum
    \/ AddClass \/ AddEvent \/ AddFunction \/ AddAction \/ AddInflection
    \/ WriteServices \/ WriteAspects \/ WriteClasses \/ WriteEvents
    \/ AddService \/ GetSubNamespace \/ NsAdd \/ NsIndent \/ NsOutdent
    \/ ToTypeDefs \/ ToJSExports

Spec == Init /\ [][Next]_vars

(***************************************************************************)
(* C1: once addService has succeeded, every later addService call throws   *)
(* and changes nothing, whatever was added before or in between; the first *)
(* registered service name stays the only one.                             *)
(***************************************************************************)
C1_SecondServiceThrows ==
    [][/\ (last'.op = "addService" /\ Len(sf.services.names) # 0)
            => (last'.threw /\ sf' = sf)
       /\ Len(sf.services.names) # 0
            => (Len(sf.services.names) = 1 /\ sf'.services.names = sf.services.names)]_vars

\* a second addService, of another name, threw after other declarations
C1_Witness ==
    /\ last.op = "addService"
    /\ last.threw
    /\ sf.services.names # <<last.fq>>
    /\ Len(sf.types.parts) + Len(sf.classes.parts) + Len(sf.actions.names) >= 2

(***************************************************************************)
(* C2: the text toTypeDefs returns is the marker and then the lines of the *)
(* non-empty sections in the order imports, preamble, services, types,     *)
(* enums, inline enums, aspects, classes, events, actions, namespaces;     *)
(* every contributed line is there, and there is no empty line.            *)
(***************************************************************************)
\* the section a line of the output belongs to, read off the line itself
SectionRank(line) ==
    LET h == Head(line) IN
    CASE line = AUTO_GEN_NOTE -> 0
      [] h = "import * as " -> 1
      [] h = "// preamble" -> 2
      [] h = "// service" -> 3
      [] h = "export type " -> 4
      [] h = "export " -> 5
      [] h = "const " -> 6
      [] h = "// aspect" -> 7
      [] h = "// class" -> 8
      [] h = "// event" -> 9
      [] h \in {"// function", "// action", "export declare const "} -> 10
      [] h \in {"export namespace ", " ", "// member", "}"} -> 11

RECURSIVE SumParts(_)
SumParts(buffers) ==
    IF buffers = <<>> THEN 0 ELSE Len(Head(buffers).parts) + SumParts(Tail(buffers))

\* the number of lines each section was given
SectionSize(f, r) ==
    CASE r = 1 -> Cardinality({i \in 1..Len(f.imports) :
                                f.imports[i].value.parts # f.path.parts})
      [] r = 2 -> Len(f.preamble.parts)
      [] r = 3 -> Len(f.services.buffer.parts)
      [] r = 4 -> Len(f.types.parts)
      [] r = 5 -> Len(f.enums.buffer.parts)
      [] r = 6 -> Len(f.inlineEnums.buffer.parts)
      [] r = 7 -> Len(f.aspects.parts)
      [] r = 8 -> Len(f.classes.parts)
      [] r = 9 -> Len(f.events.buffer.parts)
      [] r = 10 -> Len(f.actions.buffer.parts)
      [] r = 11 -> SumParts(Values(f.namespaces))

C2_SectionsInFixedOrder ==
    (last.op = "toTypeDefs" /\ ~last.threw) =>
        LET lines == SplitStr(last.ret, {NL}) IN
        /\ lines[1] = AUTO_GEN_NOTE
        /\ \A i \in 1..Len(lines) : lines[i] # <<>>
        /\ \A i, j \in 1..Len(lines) :
                i < j => SectionRank(lines[i]) <= SectionRank(lines[j])
        /\ \A r \in 1..11 :
                Cardinality({i \in 1..Len(lines) : SectionRank(lines[i]) = r})
                    = SectionSize(sf, r)

\* types, classes and a namespace were given lines, the sections between were not
C2_Witness ==
    /\ last.op = "toTypeDefs"
    /\ ~last.threw
    /\ Len(sf.types.parts) > 0
    /\ Len(sf.enums.buffer.parts) = 0
    /\ Len(sf.aspects.parts) = 0
    /\ Len(sf.classes.parts) > 0
    /\ Len(sf.namespaces) > 0

(***************************************************************************)
(* C6: once toTypeDefs has marked a sub-namespace buffer closed, every     *)
(* later write to it (after getSubNamespace, or through a reference the    *)
(* driver already holds) throws and leaves the buffer's lines unchanged.   *)
(***************************************************************************)
C6_ClosedBufferRejectsWrites ==
    [][\A name \in NamespaceNames :
        (HasKey(sf.namespaces, name) /\ NsBuffer(sf, name).closed) =>
            /\ NsBuffer(sf', name).parts = NsBuffer(sf, name).parts
            /\ (last'.op \in {"ns.add", "getSubNamespace"} /\ last'.name = name)
                    => last'.threw]_vars

C8_ClosesOnlyOpenBuffers ==
    [][(/\ last'.op = "toTypeDefs"
        /\ \A i \in 1..Len(sf.namespaces) : sf.namespaces[i].value.closed)
        => (~last'.threw /\ sf'.namespaces = sf.namespaces)]_vars

(***************************************************************************)
(* SpecImports: a SourceFile of any of a few paths, on either platform,    *)
(* given any sequence of imports and serialized.                           *)
(***************************************************************************)
FilePaths == {<<>>, <<"a">>, <<"a", ".", "b">>}
ImportPaths ==
    {NewPath(parts, "undefined") :
        parts \in {<<>>, << <<>> >>, << <<"a">> >>, << <<"a">>, <<"b">> >>,
                   << <<"a">>, <<"b">>, <<"c">> >>, << <<"c">> >>}}

InitImports ==
    /\ buf = NewBuffer(DefaultIndentation)
    /\ nIndent = 0
    /\ nOutdent = 0
    /\ last = [op |-> "new", threw |-> FALSE]
    /\ calls = 0
    /\ pathSep \in {PosixSep, "\\"}
    /\ sf \in {NewSourceFile(path) : path \in FilePaths}
    /\ refs = {}
    /\ early = {}
    /\ phase = "walk"
    /\ sfB = NewSourceFile(<<"_">>)
    /\ pending = <<>>
    /\ replayed = [max |-> 0, reordered |-> FALSE]
    /\ added = <<>>
    /\ wo = NoWriteout
    /\ lib = NoLibrary

AddAnyImport == AddImportFrom(ImportPaths)

NextImports == AddAnyImport \/ ToTypeDefs

SpecImports == InitImports /\ [][NextImports]_vars

\* the directory an import statement imports from
TargetOf(statement) ==
    LET i == CHOOSE k \in 1..Len(statement) : statement[k] = " from '"
    IN SubSeq(statement, i + 1, Len(statement) - 1)

\* the directory `target` names when read from the directory `from`
TargetDirectory(from, target) ==
    NormSegs(PathResolve(from) \o SplitStr(target, {PosixSep}), <<>>)

(***************************************************************************)
(* C4: the path of a SourceFile, resolved relative to its own directory,   *)
(* is './', and no emitted import statement has the file's own directory   *)
(* as its target, whatever was imported (the file's own path included).    *)
(***************************************************************************)
C4_SelfImportElided ==
    LET own == asDirectory(sf.path, <<>>)
        statements == getImports(sf).parts
    IN /\ asDirectory(sf.path, own) = <<".", "/">>
       /\ \A k \in 1..Len(statements) :
            TargetDirectory(own, TargetOf(statements[k])) # PathResolve(own)

\* the file's own path was imported after another one, which is emitted
C4_Witness ==
    /\ last.op = "addImport"
    /\ last.imp.parts = sf.path.parts
    /\ Len(sf.path.parts) = 2
    /\ HasKey(sf.imports, <<".", "/">>)
    /\ Len(getImports(sf).parts) >= 1

(***************************************************************************)
(* C5: the import table holds one entry per resolved relative directory;   *)
(* an addImport whose directory is already a key leaves the table as it is *)
(* (the first Path stays), and no two emitted import statements have the   *)
(* same target directory.                                                  *)
(***************************************************************************)
C5_OneImportPerDirectory ==
    [][\A own \in {asDirectory(sf.path, <<>>)} :
       \A statements \in {getImports(sf').parts} :
          /\ (/\ last'.op = "addImport"
              /\ \E i \in 1..Len(sf.imports) :
                    asDirectory(sf.imports[i].value, own) = asDirectory(last'.imp, own))
                => sf' = sf
          /\ \A i, j \in 1..Len(sf'.imports) :
                asDirectory(sf'.imports[i].value, own) = asDirectory(sf'.imports[j].value, own)
                    => i = j
          /\ \A i, j \in 1..Len(statements) :
                TargetOf(statements[i]) = TargetOf(statements[j]) => i = j]_vars

\* a second Path of a directory already imported was added, and the first one kept
C5_Witness ==
    /\ last.op = "addImport"
    /\ \E i \in 1..Len(sf.imports) :
        /\ sf.imports[i].key = asDirectory(last.imp, asDirectory(sf.path, <<>>))
        /\ sf.imports[i].value # last.imp
    /\ Len(getImports(sf).parts) >= 2

(***************************************************************************)
(* SpecExports: one SourceFile given inflection triples, a service,        *)
(* events, functions, actions and enums in any order, and toJSExports.     *)
(***************************************************************************)
Triples ==
    {<<<<"Book">>, <<"Books">>, <<"Books">>>>,
     <<<<"Author">>, <<"Authors">>, <<"Authors">>>>,
     <<<<"Books", ".", "text">>, <<"Books", ".", "texts">>, <<"Books", ".", "texts">>>>,
     <<<<"Books", ".", "text", ".", "x">>, <<"Books", ".", "text", ".", "xs">>,
       <<"Books", ".", "text", ".", "xs">>>>,
     <<<<"A">>, <<"A">>, <<"A">>>>,
     <<<<"Foo">>, <<"Bar">>, <<"Baz">>>>}

AddAnyInflection == AddInflectionFrom(Triples)

NextExports ==
    \/ AddAnyInflection \/ AddService \/ AddEvent \/ AddFunction \/ AddAction
    \/ AddEnum \/ AddInlineEnum \/ ToJSExports

SpecExports == Init /\ [][NextExports]_vars

\* the lines of a text
Lines(text) == SplitStr(text, {NL})

\* the alias statements among the lines of a runtime stub
AliasLines(text) ==
    SelectSeq(Lines(text),
              LAMBDA l : l # <<>> /\ Head(l) = "module.exports."
                           /\ \E k \in 1..Len(l) : l[k] = " = csn.")

(***************************************************************************)
(* C10: the alias statements toJSExports returns are those of the          *)
(* registered triples, triple by triple, in an order in which no triple    *)
(* whose singular has more dots comes before one whose singular has fewer. *)
(***************************************************************************)
C10_NestedAliasesAfterParents ==
    last.op = "toJSExports" =>
        LET lines == AliasLines(last.ret)
            n == Len(last.registered)
        IN \E p \in Permutations(1..n) :
            LET seq == [k \in 1..n |-> last.registered[p[k]]] IN
            /\ FlatMapAliases(seq) = lines
            /\ \A i, j \in 1..n : i < j => Dots(seq[i][1]) <= Dots(seq[j][1])

\* a nested singular was registered before its parent, and a third tier exists
C10_Witness ==
    /\ last.op = "toJSExports"
    /\ Len(last.registered) >= 3
    /\ Dots(last.registered[1][1]) > Dots(last.registered[2][1])
    /\ Dots(last.registered[2][1]) > Dots(last.registered[3][1])

(***************************************************************************)
(* SpecOrder: the calls made on sf are made on a second SourceFile sfB as  *)
(* well, in any order that keeps the order of the calls of each category;  *)
(* then both are serialized.  Call number n carries the token ToString(n)  *)
(* in the line it contributes.                                             *)
(***************************************************************************)
MaxOrderCalls == 3

Categories == {"imports", "types", "enums", "classes", "actions", "namespaces"}

Category(op) ==
    CASE op = "addImport" -> "imports"
      [] op = "addType" -> "types"
      [] op = "addEnum" -> "enums"
      [] op = "classes.add" -> "classes"
      [] op \in {"addFunction", "addAction"} -> "actions"
      [] op \in {"getSubNamespace", "ns.add"} -> "namespaces"

\* the calls the driver may make as its call number n
CallsAt(n) ==
    {[op |-> "addImport", n |-> n, arg |-> imp] : imp \in Imports}
    \cup {[op |-> op, n |-> n, arg |-> <<>>] :
            op \in {"addType", "addEnum", "classes.add", "addFunction", "addAction"}}
    \cup {[op |-> "getSubNamespace", n |-> n, arg |-> name] : name \in NamespaceNames}
    \cup {[op |-> "ns.add", n |-> n, arg |-> name] : name \in refs}

\* the SourceFile f after the call c
Apply(f, c) ==
    LET tag == ToString(c.n) IN
    CASE c.op = "addImport" -> addImport(f, c.arg)
      [] c.op = "addType" -> addType(f, <<"a.b.T">>, <<"T", tag>>, <<"string">>)
      [] c.op = "addEnum" -> addEnum(f, <<"a.b.E">>, <<"E", tag>>, Kvs)
      [] c.op = "classes.add" -> [f EXCEPT !.classes = add(@, <<"// class", tag>>)]
      [] c.op = "addFunction" -> addFunction(f, <<"f">>, Parameters, <<"R", tag>>)
      [] c.op = "addAction" -> addAction(f, <<"g">>, Parameters, <<"R", tag>>)
      [] c.op = "getSubNamespace" -> getSubNamespace(f, c.arg).file
      [] c.op = "ns.add" ->
            WithNsBuffer(f, c.arg, add(NsBuffer(f, c.arg), <<"// member", c.arg[1], tag>>))

InitOrder ==
    /\ buf = NewBuffer(DefaultIndentation)
    /\ nIndent = 0
    /\ nOutdent = 0
    /\ last = [op |-> "new", threw |-> FALSE]
    /\ calls = 0
    /\ pathSep = PosixSep
    /\ sf = NewSourceFile(FilePath)
    /\ refs = {}
    /\ early = {}
    /\ phase = "walk"
    /\ sfB = NewSourceFile(FilePath)
    /\ pending = [cat \in Categories |-> <<>>]
    /\ replayed = [max |-> 0, reordered |-> FALSE]
    /\ added = <<>>
    /\ wo = NoWriteout
    /\ lib = NoLibrary

\* sf is given all its calls before sfB is given its first
OrderCall ==
    /\ calls < MaxOrderCalls
    /\ phase = "walk"
    /\ replayed.max = 0
    /\ \E c \in CallsAt(calls + 1) :
        /\ sf' = Apply(sf, c)
        /\ pending' = [pending EXCEPT ![Category(c.op)] = Append(@, c)]
        /\ refs' = IF c.op = "getSubNamespace" THEN refs \cup {c.arg} ELSE refs
        /\ last' = [op |-> c.op, threw |-> FALSE]
    /\ calls' = calls + 1
    /\ UNCHANGED <<driverVars, bufVars, pathSep, early, phase, sfB, replayed>>

OrderReplay ==
    /\ phase = "walk"
    /\ \E cat \in Categories :
        /\ pending[cat] # <<>>
        /\ sfB' = Apply(sfB, Head(pending[cat]))
        /\ pending' = [pending EXCEPT ![cat] = Tail(@)]
        /\ replayed' = [max |-> Max(replayed.max, Head(pending[cat]).n),
                         reordered |-> replayed.reordered
                                        \/ Head(pending[cat]).n < replayed.max]
    /\ UNCHANGED <<driverVars, bufVars, pathSep, sf, refs, early, phase, last, calls>>

\* toTypeDefs on both files, once sfB was given every call sf was given
OrderToTypeDefs ==
    /\ phase = "walk"
    /\ \A cat \in Categories : pending[cat] = <<>>
    /\ LET r == toTypeDefs(sf)
           rB == toTypeDefs(sfB)
       IN /\ ~r.threw /\ ~rB.threw
          /\ sf' = r.file
          /\ sfB' = rB.file
          /\ last' = [op |-> "toTypeDefs", threw |-> FALSE, ret |-> r.ret, retB |-> rB.ret]
    /\ phase' = "serialized"
    /\ UNCHANGED <<driverVars, bufVars, pathSep, refs, early, pending, replayed, calls>>

NextOrder == OrderCall \/ OrderReplay \/ OrderToTypeDefs

SpecOrder == InitOrder /\ [][NextOrder]_vars

\* the number of the call that contributed a line; 0 for a line that names none
TagOf(line) ==
    IF \E n \in 1..(MaxOrderCalls + 1) : \E k \in 1..Len(line) : line[k] = ToString(n)
    THEN CHOOSE n \in 1..(MaxOrderCalls + 1) : \E k \in 1..Len(line) : line[k] = ToString(n)
    ELSE 0

\* two lines of one declaration category (of one sub-namespace, for a member)
SameCategory(l1, l2) ==
    /\ SectionRank(l1) = SectionRank(l2)
    /\ SectionRank(l1) = 11 =>
            /\ Len(l1) >= 4 /\ Len(l2) >= 4
            /\ l1[3] = "// member" /\ l2[3] = "// member"
            /\ l1[4] = l2[4]

(***************************************************************************)
(* C3: two sequences of the same calls that agree on the order of the      *)
(* calls of each category give the same toTypeDefs text, and in it the     *)
(* lines of one category are in the order they were contributed.           *)
(***************************************************************************)
C3_OrderAcrossCategoriesIrrelevant ==
    (last.op = "toTypeDefs" /\ phase = "serialized") =>
        /\ last.ret = last.retB
        /\ LET lines == Lines(last.ret) IN
            \A i, j \in 1..Len(lines) :
                (/\ i < j
                 /\ SameCategory(lines[i], lines[j])
                 /\ TagOf(lines[i]) > 0
                 /\ TagOf(lines[j]) > 0) => TagOf(lines[i]) < TagOf(lines[j])

\* sfB was given a later call of sf before an earlier one, and two calls of one
\* category
C3_Witness ==
    /\ last.op = "toTypeDefs"
    /\ phase = "serialized"
    /\ replayed.reordered
    /\ Len(sf.classes.parts) + Len(sf.types.parts) >= 3

(***************************************************************************)
(* Observers of the alias section: the triples tier by tier (a tier is the *)
(* number of segments of the singular), in registration order in a tier.   *)
(***************************************************************************)
RECURSIVE TiersFrom(_, _, _)
TiersFrom(triples, d, maxd) ==
    IF d > maxd THEN <<>>
    ELSE SelectSeq(triples, LAMBDA t : Dots(t[1]) = d) \o TiersFrom(triples, d + 1, maxd)

RECURSIVE MaxDots(_)
MaxDots(triples) ==
    IF triples = <<>> THEN 0 ELSE Max(Dots(Head(triples)[1]), MaxDots(Tail(triples)))

ByTier(triples) == TiersFrom(triples, 1, MaxDots(triples))

\* how often a line occurs among lines
Count(lines, l) == Cardinality({i \in 1..Len(lines) : lines[i] = l})

SameStatements(l1, l2) ==
    /\ Len(l1) = Len(l2)
    /\ \A i \in 1..Len(l1) : Count(l1, l1[i]) = Count(l2, l1[i])

\* the registration orders that differ from `registered` inside tiers only
TierPermutations(registered) ==
    {[k \in 1..Len(registered) |-> registered[p[k]]] :
        p \in {q \in Permutations(1..Len(registered)) :
                  \A k \in 1..Len(registered) :
                      Dots(registered[q[k]][1]) = Dots(registered[k][1])}}

\* the alias section toJSExports returns for f with the triples registered as given
AliasSectionFor(f, registered) ==
    AliasLines(toJSExports([f EXCEPT !.inflections = registered]).ret)

(***************************************************************************)
(* C11, as stated: the alias section toJSExports returns is the same for   *)
(* every registration order that permutes triples inside a tier only.      *)
(***************************************************************************)
C11_SameForAnyOrderInTier ==
    last.op = "toJSExports" =>
        \A permuted \in TierPermutations(last.registered) :
            AliasSectionFor(sf, permuted) = AliasLines(last.ret)

(***************************************************************************)
(* C11, amended: for every such registration order the alias section holds *)
(* the same statements, each as often; they are the statements of the      *)
(* triples tier by tier and, inside a tier, in the order of registration.  *)
(***************************************************************************)
C11_SameStatementsInRegistrationOrder ==
    last.op = "toJSExports" =>
        \A permuted \in TierPermutations(last.registered) :
            \A section \in {AliasSectionFor(sf, permuted)} :
                /\ SameStatements(section, AliasLines(last.ret))
                /\ section = FlatMapAliases(ByTier(permuted))

\* two triples of one tier with different statements, and a triple of another tier
C11_Witness ==
    /\ last.op = "toJSExports"
    /\ \E i, j, k \in 1..Len(last.registered) :
        /\ i < j
        /\ Dots(last.registered[i][1]) = Dots(last.registered[j][1])
        /\ last.registered[i] # last.registered[j]
        /\ Dots(last.registered[k][1]) > Dots(last.registered[i][1])
        /\ k < i

\* the distinct names of a triple, and the assignment of one to the original
Names(t) == {t[1], t[2], t[3]}

Assignment(n, original) == <<"module.exports.">> \o n \o <<" = csn.">> \o original

\* the number of alias statements due for the first k triples
RECURSIVE Due(_, _)
Due(triples, k) ==
    IF k = 0 THEN 0 ELSE Due(triples, k - 1) + Cardinality(Names(triples[k]))

(***************************************************************************)
(* C12: the alias section toJSExports returns consists of one group of     *)
(* statements per registered triple (singular, plural, original), and the  *)
(* group of a triple holds the assignment 'module.exports.<n> =            *)
(* csn.<original>' exactly once for each distinct name n among the three   *)
(* and nothing else: three, two or one statements.                         *)
(***************************************************************************)
C12_OneAssignmentPerDistinctName ==
    last.op = "toJSExports" =>
        LET lines == AliasLines(last.ret)
            triples == ByTier(last.registered)
            n == Len(triples)
        IN /\ Len(lines) = Due(triples, n)
           /\ \A k \in 1..n :
                {lines[i] : i \in (Due(triples, k - 1) + 1)..Due(triples, k)}
                    = {Assignment(name, triples[k][3]) : name \in Names(triples[k])}

\* triples with three, two and one distinct names were registered
C12_Witness ==
    /\ last.op = "toJSExports"
    /\ \A c \in 1..3 :
        \E k \in 1..Len(last.registered) : Cardinality(Names(last.registered[k])) = c
    /\ Len(AliasLines(last.ret)) = 6

(***************************************************************************)
(* SpecEnums: one SourceFile given enums and inline enums of several names *)
(* (and events and actions) in any order, and toJSExports.                 *)
(***************************************************************************)
EnumNames == {<<"E">>, <<"F">>}
EnumProperties == {<<"genre">>, <<"kind">>}

AddAnyEnum == AddEnumFrom(EnumNames)

AddAnyInlineEnum == AddInlineEnumFrom(EnumProperties)

NextEnums == AddAnyEnum \/ AddAnyInlineEnum \/ AddEvent \/ AddAction \/ ToJSExports

SpecEnums == Init /\ [][NextEnums]_vars

\* what follows the line '// enums' in a runtime stub
EnumSection(text) ==
    LET i == CHOOSE k \in 1..Len(text) : text[k] = "// enums"
    IN SubSeq(text, i + 1, Len(text))

\* the runtime-implementation statement due for an added enum
StatementOf(e) ==
    IF e.op = "addEnum" THEN stringifyEnumImplementation(e.name, e.kvs)
    ELSE stringifyEnumImplementation(e.entity \o <<".">> \o e.property, e.kvs)

\* a section of exactly these statements, one per line
RECURSIVE SectionOf(_)
SectionOf(statements) ==
    IF statements = <<>> THEN <<NL>>
    ELSE <<NL>> \o Head(statements) \o SectionOf(Tail(statements))

(***************************************************************************)
(* C13, as stated: toJSExports returns exactly one runtime-implementation  *)
(* statement per enum added with addEnum, and none for an enum added with  *)
(* addInlineEnum.                                                          *)
(***************************************************************************)
C13_NoStatementForInlineEnums ==
    last.op = "toJSExports" =>
        LET topLevel == SelectSeq(added, LAMBDA e : e.op = "addEnum")
        IN EnumSection(last.ret)
             = SectionOf([k \in 1..Len(topLevel) |-> StatementOf(topLevel[k])])

(***************************************************************************)
(* C13, amended: toJSExports returns exactly one runtime-implementation    *)
(* statement per enum added, with addEnum under its name and with          *)
(* addInlineEnum under the name entity.property, in the order of the calls.*)
(***************************************************************************)
C13_OneStatementPerAddedEnum ==
    last.op = "toJSExports" =>
        EnumSection(last.ret) = SectionOf([k \in 1..Len(added) |-> StatementOf(added[k])])

\* enums of both kinds were added, an inline one first
C13_Witness ==
    /\ last.op = "toJSExports"
    /\ Len(added) >= 3
    /\ added[1].op = "addInlineEnum"
    /\ \E k \in 2..Len(added) : added[k].op = "addEnum"
    /\ \E k \in 2..Len(added) : added[k].op = "addInlineEnum" /\ added[k] # added[1]

(***************************************************************************)
(* writeout(root, sources)                                                 *)
(*                                                                         *)
(* wo.tasks[i] is the async callback of sources[i]:                        *)
(*   pc  "mkdir": awaits fs.mkdir; "writes": awaits Promise.all of the two *)
(*       fs.writeFile calls; "returned": its promise is resolved with ret; *)
(*       "rejected": its promise is rejected                               *)
(*   mk  the fs.mkdir request: "pending", "ok" or "failed"                 *)
(*   ts, js  the fs.writeFile requests of index.ts and index.js: "none"    *)
(*       (not made), "pending", "ok" or "failed"                           *)
(*   threw  whether a serializer threw in the callback                     *)
(* wo.dirs and wo.disk are the directories and the files of the file       *)
(* system, wo.logged the tasks whose error console.error printed.          *)
(***************************************************************************)
\* path.join(...strs) of directory strings
PathJoinStrings(strs) ==
    LET RECURSIVE Segs(_)
        Segs(ss) == IF ss = <<>> THEN <<>>
                    ELSE SplitStr(Head(ss), {PosixSep, pathSep}) \o Segs(Tail(ss))
    IN CHOOSE r \in {PathJoin(segs) : segs \in {Segs(strs)}} : TRUE

\* const dir = path.join(root, source.path.asDirectory({local: false, posix: false}))
TargetDir(root, source) ==
    PathJoinStrings(<<root, asDirectoryOf(source.path, <<>>, FALSE, FALSE)>>)

\* callbacks that do not await fs.mkdir before they call fs.writeFile
StartTasksWriting(root, sources) ==
    [settled |-> "pending", root |-> root, sources |-> sources,
     tasks |-> [i \in 1..Len(sources) |->
                  [dir |-> TargetDir(root, sources[i]), pc |-> "writes", mk |-> "pending",
                   ts |-> "pending", js |-> "pending", threw |-> FALSE,
                   tsFile |-> TargetDir(root, sources[i]) \o <<pathSep, "index.ts">>,
                   tsData |-> <<"t">>,
                   jsFile |-> TargetDir(root, sources[i]) \o <<pathSep, "index.js">>,
                   jsData |-> <<"j">>,
                   ret |-> <<>>]],
     dirs |-> {}, disk |-> {}, logged |-> {}, result |-> <<>>]

\* the sources.map(async ...) call: every callback runs up to its first await
StartTasks(root, sources) ==
    [settled |-> "pending", root |-> root, sources |-> sources,
     tasks |-> [i \in 1..Len(sources) |->
                  [dir |-> TargetDir(root, sources[i]), pc |-> "mkdir", mk |-> "pending",
                   ts |-> "none", js |-> "none", threw |-> FALSE,
                   tsFile |-> <<>>, tsData |-> <<>>, jsFile |-> <<>>, jsData |-> <<>>,
                   ret |-> <<>>]],
     dirs |-> {}, disk |-> {}, logged |-> {}, result |-> <<>>]

\* a catch block that throws the error on
Rethrow(w, i) == [w EXCEPT !.tasks[i].pc = "rejected"]

\* a callback whose `return dir` is inside the try block
CatchWithoutDir(w, i) ==
    [w EXCEPT !.logged = @ \cup {i}, !.tasks[i].pc = "returned",
              !.tasks[i].ret = <<"undefined">>]

\* the catch block of callback i, and the `return dir` after it
Catch(w, i) ==
    [w EXCEPT !.logged = @ \cup {i}, !.tasks[i].pc = "returned",
              !.tasks[i].ret = w.tasks[i].dir]

ArtifactNames == [ts |-> <<"index.ts">>, js |-> <<"index.js">>]

\* path.join(dir, 'index.ts') and path.join(dir, 'index.js')
ArtifactPath(dir, which) == PathJoinStrings(<<dir, ArtifactNames[which]>>)

Other(which) == IF which = "ts" THEN "js" ELSE "ts"

\* callback i goes on after fs.mkdir: the arguments of the two fs.writeFile
\* calls are evaluated and the calls made; t is what source.toTypeDefs() does
\* and j what source.toJSExports() does after it
AfterMkdir(w, i, t, j) ==
    IF t.threw
    THEN Catch([w EXCEPT !.sources[i] = t.file, !.tasks[i].threw = TRUE], i)
    ELSE [w EXCEPT !.sources[i] = j.file,
                   !.tasks[i].pc = "writes",
                   !.tasks[i].ts = "pending",
                   !.tasks[i].tsFile = ArtifactPath(w.tasks[i].dir, "ts"),
                   !.tasks[i].tsData = t.ret,
                   !.tasks[i].js = "pending",
                   !.tasks[i].jsFile = ArtifactPath(w.tasks[i].dir, "js"),
                   !.tasks[i].jsData = j.ret]

\* fs.writeFile(file, data) done: the file holds data
WriteFile(disk, file, data) ==
    {d \in disk : d.path # file} \cup {[path |-> file, data |-> data]}

\* Promise.all of the two writes is fulfilled and callback i returns dir
AfterWrites(w, i) == [w EXCEPT !.tasks[i].pc = "returned", !.tasks[i].ret = w.tasks[i].dir]

(***************************************************************************)
(* SpecWriteout: writeout('root', sources) for three modules 'a', 'a.b'    *)
(* and 'c' on either platform.  A module is a SourceFile with a type, with *)
(* an open sub-namespace as well, or with a sub-namespace the driver has   *)
(* outdented once too often (toTypeDefs throws on it).  Every fs request   *)
(* succeeds or fails, in any order.                                        *)
(***************************************************************************)
Root == <<"root">>
ModulePaths == << <<"a">>, <<"a", ".", "b">>, <<"c">> >>
SourceKinds == {"plain", "namespace", "mismatched"}

SourceOf(path, kind) ==
    LET plain == addType(NewSourceFile(path), path \o <<".", "T">>, <<"T">>, <<"string">>)
        nested == getSubNamespace(plain, <<"N1">>).file
    IN CASE kind = "plain" -> plain
         [] kind = "namespace" -> nested
         [] kind = "mismatched" ->
                WithNsBuffer(nested, <<"N1">>, outdent(NsBuffer(nested, <<"N1">>)).buffer)

InitWriteout ==
    /\ buf = NewBuffer(DefaultIndentation)
    /\ nIndent = 0
    /\ nOutdent = 0
    /\ last = [op |-> "new", threw |-> FALSE]
    /\ calls = 0
    /\ pathSep \in {"/", "\\"}
    /\ sf = NewSourceFile(FilePath)
    /\ refs = {}
    /\ early = {}
    /\ phase = "walk"
    /\ sfB = NewSourceFile(<<"_">>)
    /\ pending = <<>>
    /\ replayed = [max |-> 0, reordered |-> FALSE]
    /\ added = <<>>
    /\ wo = NoWriteout
    /\ lib = NoLibrary

Writeout ==
    /\ wo.settled = "idle"
    /\ \E kinds \in [1..Len(ModulePaths) -> SourceKinds] :
        wo' = StartTasks(Root, [i \in 1..Len(ModulePaths) |-> SourceOf(ModulePaths[i], kinds[i])])
    /\ UNCHANGED <<bufVars, fileVars, orderVars, last, calls, pathSep, added, lib>>

MkdirSucceeds ==
    /\ \E i \in 1..Len(wo.tasks) :
        /\ wo.tasks[i].mk = "pending"
        /\ \E t \in {toTypeDefs(wo.sources[i])} :
            \E j \in {toJSExports(t.file)} :
                wo' = AfterMkdir([wo EXCEPT !.tasks[i].mk = "ok",
                                           !.dirs = @ \cup {wo.tasks[i].dir}], i, t, j)
    /\ UNCHANGED <<bufVars, fileVars, orderVars, last, calls, pathSep, added, lib>>

MkdirFails ==
    /\ \E i \in 1..Len(wo.tasks) :
        /\ wo.tasks[i].mk = "pending"
        /\ wo' = Catch([wo EXCEPT !.tasks[i].mk = "failed"], i)
    /\ UNCHANGED <<bufVars, fileVars, orderVars, last, calls, pathSep, added, lib>>

WriteSucceeds ==
    /\ \E i \in 1..Len(wo.tasks), which \in {"ts", "js"} :
        /\ wo.tasks[i][which] = "pending"
        /\ \E t \in {wo.tasks[i]} :
            \E w \in {[wo EXCEPT !.tasks[i][which] = "ok",
                                 !.disk = IF which = "ts"
                                          THEN WriteFile(@, t.tsFile, t.tsData)
                                          ELSE WriteFile(@, t.jsFile, t.jsData)]} :
                wo' = IF t.pc = "writes" /\ t[Other(which)] = "ok"
                      THEN AfterWrites(w, i) ELSE w
    /\ UNCHANGED <<bufVars, fileVars, orderVars, last, calls, pathSep, added, lib>>

\* Promise.all rejects with the first rejection; a later one has no handler left to run
WriteFails ==
    /\ \E i \in 1..Len(wo.tasks), which \in {"ts", "js"} :
        /\ wo.tasks[i][which] = "pending"
        /\ LET w == [wo EXCEPT !.tasks[i][which] = "failed"]
           IN wo' = IF wo.tasks[i].pc = "writes" THEN Catch(w, i) ELSE w
    /\ UNCHANGED <<bufVars, fileVars, orderVars, last, calls, pathSep, added, lib>>

\* Promise.all of the callbacks' promises settles, and with it writeout's promise
Settle ==
    /\ wo.settled = "pending"
    /\ IF \E i \in 1..Len(wo.tasks) : wo.tasks[i].pc = "rejected"
       THEN wo' = [wo EXCEPT !.settled = "rejected"]
       ELSE /\ \A i \in 1..Len(wo.tasks) : wo.tasks[i].pc = "returned"
            /\ wo' = [wo EXCEPT !.settled = "resolved",
                                 !.result = [i \in 1..Len(wo.tasks) |-> wo.tasks[i].ret]]
    /\ UNCHANGED <<bufVars, fileVars, orderVars, last, calls, pathSep, added, lib>>

NextWriteout ==
    \/ Writeout \/ MkdirSucceeds \/ MkdirFails \/ WriteSucceeds \/ WriteFails \/ Settle

SpecWriteout == InitWriteout /\ [][NextWriteout]_vars

\* the operating system answers every request, and the event loop runs every
\* callback that is ready
SpecWriteoutFair ==
    /\ SpecWriteout
    /\ WF_vars(MkdirSucceeds \/ MkdirFails)
    /\ WF_vars(WriteSucceeds \/ WriteFails)
    /\ WF_vars(Settle)

\* a file of the file system
Written(file, data) == [path |-> file, data |-> data] \in wo.disk

\* no request of task t has failed and no serializer threw in it
Unfailed(t) == t.mk # "failed" /\ t.ts # "failed" /\ t.js # "failed" /\ ~t.threw

(***************************************************************************)
(* C14: whatever fails for the other modules, once the promise of writeout *)
(* is settled the directory creation of every module has been answered,    *)
(* both writes of every module whose directory was created (and whose      *)
(* serializers returned) have been requested, and a module none of whose   *)
(* own requests failed has both its artifacts written in its directory.    *)
(***************************************************************************)
C14_FailureLeavesOtherModulesAlone ==
    wo.settled \in {"resolved", "rejected"} =>
        \A i \in 1..Len(wo.tasks) :
            LET t == wo.tasks[i] IN
            /\ t.mk # "pending"
            /\ (t.mk = "ok" /\ ~t.threw) => (t.ts # "none" /\ t.js # "none")
            /\ Unfailed(t) =>
                /\ t.dir \in wo.dirs
                /\ Written(t.dir \o <<pathSep, "index.ts">>, t.tsData)
                /\ Written(t.dir \o <<pathSep, "index.js">>, t.jsData)
                /\ t.tsData # <<>> /\ t.jsData # <<>>

\* three modules; only the second's directory creation failed; settled
C14_Witness ==
    /\ wo.settled = "resolved"
    /\ Len(wo.tasks) = 3
    /\ wo.tasks[2].mk = "failed"
    /\ Unfailed(wo.tasks[1]) /\ Unfailed(wo.tasks[3])
    /\ Cardinality(wo.disk) = 4

\* root, and the segments of the module's namespace, joined by path.sep
ExpectedDir(source) == JoinStr(<<Root>> \o source.path.parts, <<pathSep>>)

(***************************************************************************)
(* C15: the promise of writeout is never rejected; once writeout is called *)
(* it is resolved eventually; and its value lists the target directory of  *)
(* every source, one per source in the order of the sources, whatever      *)
(* succeeded or failed.                                                    *)
(***************************************************************************)
C15_ResolvesWithEveryDirectory ==
    /\ [](wo.settled # "rejected")
    /\ [](wo.settled = "resolved" =>
            wo.result = [i \in 1..Len(wo.sources) |-> ExpectedDir(wo.sources[i])])
    /\ (wo.settled = "pending") ~> (wo.settled = "resolved")

\* resolved although a directory creation, a write and a serializer failed
C15_Witness ==
    /\ wo.settled = "resolved"
    /\ Len(wo.result) = 3
    /\ \E i, j, k \in 1..Len(wo.tasks) :
        /\ wo.tasks[i].mk = "failed"
        /\ wo.tasks[j].ts = "failed" \/ wo.tasks[j].js = "failed"
        /\ wo.tasks[k].threw

(***************************************************************************)
(* C16: an error a serializer throws while writeout emits a module is no   *)
(* I/O failure: it is not logged and swallowed, and the promise of         *)
(* writeout is not resolved as if nothing had happened.                    *)
(***************************************************************************)
C16_SerializerErrorSurfaces ==
    \A i \in 1..Len(wo.tasks) :
        wo.tasks[i].threw => (i \notin wo.logged /\ wo.settled # "resolved")

(***************************************************************************)
(* SpecLambda: addFunction and addAction with any name, parameter list and *)
(* return type out of small sets; the names are bare identifiers.          *)
(***************************************************************************)
MaxLambdaCalls == 2

LambdaNames == {<<"f">>, <<"g">>}
LambdaParameters ==
    {<<>>,
     << <<<<"p">>, <<"T">>>> >>,
     << <<<<"p">>, <<"T">>>>, <<<<"q">>, <<"U">>>> >>,
     << <<<<"q">>, <<"U">>>>, <<<<"p">>, <<"T">>>> >>}
LambdaReturns == {<<"number">>, <<"string">>}

AddAnyFunction ==
    /\ calls < MaxLambdaCalls
    /\ \E name \in LambdaNames, parameters \in LambdaParameters, returns \in LambdaReturns :
        /\ sf' = addFunction(sf, name, parameters, returns)
        /\ last' = [op |-> "addFunction", threw |-> FALSE, name |-> name,
                     parameters |-> parameters, returns |-> returns]
    /\ calls' = calls + 1
    /\ UNCHANGED <<driverVars, bufVars, orderVars, pathSep, refs, early, phase>>

AddAnyAction ==
    /\ calls < MaxLambdaCalls
    /\ \E name \in LambdaNames, parameters \in LambdaParameters, returns \in LambdaReturns :
        /\ sf' = addAction(sf, name, parameters, returns)
        /\ last' = [op |-> "addAction", threw |-> FALSE, name |-> name,
                     parameters |-> parameters, returns |-> returns]
    /\ calls' = calls + 1
    /\ UNCHANGED <<driverVars, bufVars, orderVars, pathSep, refs, early, phase>>

NextLambda == AddAnyFunction \/ AddAnyAction

SpecLambda == Init /\ [][NextLambda]_vars

\* 'p1: T1, p2: T2, ...'
Pairs(parameters) ==
    JoinStr([i \in 1..Len(parameters) |-> parameters[i][1] \o <<": ">> \o parameters[i][2]],
            <<", ">>)

\* 'name: { (p1: T1, ...): R, __parameters: {p1: T1, ...}, __returns: R }'
Shape(name, parameters, returns) ==
    name \o <<": ", "{ ", "(">> \o Pairs(parameters) \o <<"): ">> \o returns
         \o <<", __parameters: {">> \o Pairs(parameters)
         \o <<"}, __returns: ">> \o returns \o <<" }">>

RECURSIVE ClassNames(_)
ClassNames(contents) ==
    IF Len(contents) < 2 THEN <<>>
    ELSE IF Head(contents) = "export class "
         THEN <<<<contents[2]>>>> \o ClassNames(Tail(Tail(contents)))
         ELSE ClassNames(Tail(contents))

\* path.basename(file, ext)
Basename(file, ext) ==
    LET segs == SplitStr(file, {PosixSep, pathSep})
        base == segs[Len(segs)]
    IN IF Len(base) > 1 /\ base[Len(base)] = ext
       THEN SubSeq(base, 1, Len(base) - 1)
       ELSE base

\* new Library(file), the file holding contents
NewLibrary(file, contents) ==
    [contents |-> contents,
     file |-> file,
     entities |-> ClassNames(contents),
     namespace |-> Basename(file, ".ts"),
     referenced |-> FALSE,
     path |-> NewPath(SplitStr(Basename(file, ".ts"), {"."}), "undefined")]

\* an offers that compares the entity's name alone
offersAnyNamespace(l, entity) ==
    \E i \in 1..Len(l.entities) :
        /\ Len(entity) >= Len(l.entities[i])
        /\ SubSeq(entity, Len(entity) - Len(l.entities[i]) + 1, Len(entity)) = l.entities[i]

offers(l, entity) ==
    \E i \in 1..Len(l.entities) : l.namespace \o <<".">> \o l.entities[i] = entity

(***************************************************************************)
(* SpecLibrary: a Library is constructed from one of a few files, the      *)
(* driver marks it referenced, and offers is asked about qualified names.  *)
(***************************************************************************)
LibraryFiles ==
    {<<"lib", "/", "cap", ".", "hana", ".ts">>,
     <<"cap", ".ts">>,
     <<"lib", "/", "sap", ".", "common", ".ts">>}

LibraryContents ==
    {<<>>,
     <<"export class ", "TINYINT", " {}">>,
     <<"// types", "\n", "export class ", "TINYINT", " {}", "\n",
       "export class ", "SMALLINT", " {}">>,
     <<"export declare class ", "REAL", " {}", "\n", "export class ", "hana", " {}">>}

QualifiedNames ==
    {<<"cap", ".", "hana", ".", "TINYINT">>,
     <<"cap", ".", "hana", ".", "SMALLINT">>,
     <<"cap", ".", "hana", ".", "REAL">>,
     <<"cap", ".", "hana", ".", "hana">>,
     <<"cap", ".", "hanadb", ".", "TINYINT">>,
     <<"cap", ".", "TINYINT">>,
     <<"cap", ".", "hana">>,
     <<"sap", ".", "common", ".", "TINYINT">>,
     <<"cap", ".", "hana", ".">>,
     <<"TINYINT">>,
     <<"cap", ".", "hana", ".", "TINYINT", ".", "x">>}

ConstructLibrary ==
    /\ \E file \in LibraryFiles, contents \in LibraryContents :
        lib' = NewLibrary(file, contents)
    /\ last' = [op |-> "new Library", threw |-> FALSE]
    /\ UNCHANGED <<bufVars, fileVars, orderVars, calls, pathSep, added, wo>>

\* the driver marks the library as used by the model
Reference ==
    /\ lib # NoLibrary
    /\ lib' = [lib EXCEPT !.referenced = TRUE]
    /\ last' = [op |-> "referenced", threw |-> FALSE]
    /\ UNCHANGED <<bufVars, fileVars, orderVars, calls, pathSep, added, wo>>

Offers ==
    /\ lib # NoLibrary
    /\ \E q \in QualifiedNames :
        last' = [op |-> "offers", threw |-> FALSE, entity |-> q, ret |-> offers(lib, q)]
    /\ UNCHANGED <<bufVars, fileVars, orderVars, calls, pathSep, added, wo, lib>>

NextLibrary == ConstructLibrary \/ Reference \/ Offers

\* no Library yet, on either platform
InitLibrary ==
    /\ buf = NewBuffer(DefaultIndentation)
    /\ nIndent = 0
    /\ nOutdent = 0
    /\ last = [op |-> "new", threw |-> FALSE]
    /\ calls = 0
    /\ pathSep \in {PosixSep, "\\"}
    /\ sf = NewSourceFile(<<>>)
    /\ refs = {}
    /\ early = {}
    /\ phase = "walk"
    /\ sfB = NewSourceFile(<<"_">>)
    /\ pending = <<>>
    /\ replayed = [max |-> 0, reordered |-> FALSE]
    /\ added = <<>>
    /\ wo = NoWriteout
    /\ lib = NoLibrary

SpecLibrary == InitLibrary /\ [][NextLibrary]_vars

\* the names the file of the library declares with 'export class'
Catalogue(l) == {l.contents[k + 1] : k \in {j \in 1..(Len(l.contents) - 1) :
                                              l.contents[j] = "export class "}}

\* the namespace the file name of the library stands for
NamespaceOf(l) ==
    LET dots == {k \in 1..Len(l.file) : l.file[k] \in {PosixSep, pathSep}}
        from == IF dots = {} THEN 1 ELSE (CHOOSE k \in dots : \A j \in dots : j <= k) + 1
    IN SubSeq(l.file, from, Len(l.file) - 1)

(***************************************************************************)
(* C18: offers(q) is true exactly when q is the namespace of the library,  *)
(* a dot, and a name of its catalogue; a name of another namespace, one    *)
(* that only begins like the namespace, or one with more or less after     *)
(* the namespace is not offered.                                           *)
(***************************************************************************)
C18_OffersOwnEntitiesOnly ==
    last.op = "offers" =>
        (last.ret <=>
            /\ Len(last.entity) = Len(NamespaceOf(lib)) + 2
            /\ SubSeq(last.entity, 1, Len(NamespaceOf(lib))) = NamespaceOf(lib)
            /\ last.entity[Len(NamespaceOf(lib)) + 1] = "."
            /\ last.entity[Len(last.entity)] \in Catalogue(lib))

\* a name of the catalogue is asked for under another namespace
C18_Witness ==
    /\ last.op = "offers"
    /\ ~last.ret
    /\ last.entity[Len(last.entity)] \in Catalogue(lib)
    /\ NamespaceOf(lib) = <<"cap", ".", "hana">>
    /\ Len(lib.entities) = 2

(***************************************************************************)
(* SpecCwd: isCwd is called on a Path of any of a few segment lists, with  *)
(* no reference directory (<<>>) or with one of a few.                     *)
(***************************************************************************)
CwdParts ==
    {<<>>, << <<>> >>, << <<"a">> >>, << <<"a">>, <<"b">> >>, << <<"b">> >>,
     << <<"a">>, <<"b">>, <<"c">> >>}

CwdReferences ==
    {<<>>,
     <<".">>,
     <<".", "/">>,
     <<".", "/", ".">>,
     <<".", "/", "a">>,
     <<"a">>,
     <<".", "/", "b">>,
     <<".", "/", "a", "/", "b">>,
     <<".", "/", "a", "/", "..">>,
     <<".", "/", "a", "/", "b", "/", "c">>}

IsCwd ==
    /\ \E parts \in CwdParts, relative \in CwdReferences :
        last' = [op |-> "isCwd", threw |-> FALSE, parts |-> parts, relative |-> relative,
                 ret |-> isCwd(NewPath(parts, "undefined"), relative)]
    /\ UNCHANGED <<bufVars, fileVars, orderVars, calls, pathSep, driverVars>>

AsDirectory ==
    /\ \E parts \in CwdParts, relative \in CwdReferences :
        last' = [op |-> "asDirectory", threw |-> FALSE, parts |-> parts, relative |-> relative,
                 ret |-> asDirectory(NewPath(parts, "undefined"), relative)]
    /\ UNCHANGED <<bufVars, fileVars, orderVars, calls, pathSep, driverVars>>

NextCwd == IsCwd \/ AsDirectory

SpecCwd == InitLibrary /\ [][NextCwd]_vars

\* the directory the segments name below the working directory
DirectoryOf(parts) == NormSegs(parts, <<>>)

\* the directory a reference names below the working directory
DirectoryAt(relative) == NormSegs(SplitStr(relative, {PosixSep, pathSep}), <<>>)

(***************************************************************************)
(* C19, as the spec has it: isCwd is true if the path has zero segments,   *)
(* or a reference is given and the directory form relative to it is './';  *)
(* otherwise false.                                                        *)
(***************************************************************************)
C19_TrueForZeroSegments ==
    last.op = "isCwd" =>
        (last.ret <=>
            \/ Len(last.parts) = 0
            \/ /\ last.relative # <<>>
               /\ DirectoryOf(last.parts) = DirectoryAt(last.relative))

(***************************************************************************)
(* C19, amended: with no reference isCwd is true exactly when the path has *)
(* zero segments; with a reference it is true exactly when the path names  *)
(* the directory of the reference (its relative directory form is './'),   *)
(* so a path of zero segments is not the cwd of a reference below the      *)
(* working directory.                                                      *)
(***************************************************************************)
C19_ZeroSegmentsOnlyWithoutReference ==
    last.op = "isCwd" =>
        (last.ret <=>
            IF last.relative = <<>>
            THEN Len(last.parts) = 0
            ELSE DirectoryOf(last.parts) = DirectoryAt(last.relative))

\* zero segments, asked relative to './a'
C19_Witness ==
    /\ last.op = "isCwd"
    /\ last.parts = <<>>
    /\ last.relative = <<".", "/", "a">>
    /\ ~last.ret

\* the indent prefix after `levels` more indents than outdents
RECURSIVE PrefixAt(_, _)
PrefixAt(indentation, levels) ==
    IF levels <= 0 THEN <<>> ELSE indentation \o PrefixAt(indentation, levels - 1)

(***************************************************************************)
(* C20: add stores the line behind the indent prefix of the moment of the  *)
(* call and leaves the lines before it as they are; indent and outdent     *)
(* change no stored line, so what join returns for the lines stored so far *)
(* is the same before and after them.                                      *)
(***************************************************************************)
C20_StoredLinesKeepTheirPrefix ==
    [][/\ last'.op = "add" =>
            buf'.parts = Append(buf.parts, PrefixAt(buf.indentation, nIndent - nOutdent) \o last'.part)
       /\ last'.op \in {"indent", "outdent"} =>
            /\ buf'.parts = buf.parts
            /\ join(buf', <<NL>>) = join(buf, <<NL>>)
       /\ last'.op = "join" =>
            /\ buf'.parts = buf.parts
            /\ last'.ret = JoinStr(buf.parts, <<NL>>)]_vars

\* a line added one level deep and one added after the outdent, joined
C20_Witness ==
    /\ last.op = "join"
    /\ buf.parts = << <<" ", " ", "x">>, <<"x">> >>
    /\ buf.indentation = DefaultIndentation
    /\ buf.currentIndent = <<>>
    /\ last.ret = <<" ", " ", "x", NL, "x">>

(***************************************************************************)
(* C21: a file write of a module is requested only when the creation of    *)
(* the module's directory has succeeded and the directory exists; when the *)
(* creation failed, neither write is requested and neither artifact is on  *)
(* disk.                                                                   *)
(***************************************************************************)
C21_WritesAfterDirectory ==
    \A i \in 1..Len(wo.tasks) :
        LET t == wo.tasks[i] IN
        /\ (t.ts # "none" \/ t.js # "none") => (t.mk = "ok" /\ t.dir \in wo.dirs)
        /\ t.mk = "failed" =>
            /\ t.ts = "none" /\ t.js = "none"
            /\ \A d \in wo.disk :
                d.path \notin {t.dir \o <<pathSep, "index.ts">>, t.dir \o <<pathSep, "index.js">>}

\* one module's directory creation failed, another module's files are written
C21_Witness ==
    \E i, k \in 1..Len(wo.tasks) :
        /\ wo.tasks[i].mk = "failed"
        /\ wo.tasks[i].pc = "returned"
        /\ wo.tasks[k].mk = "ok"
        /\ wo.tasks[k].ts = "ok" /\ wo.tasks[k].js = "ok"
        /\ Cardinality(wo.disk) >= 2

\* what a line of a runtime stub is, by its text
IsServiceRecord(l) == l # <<>> /\ Head(l) = "module.exports = { name: '"
IsNamedExport(l) == l # <<>> /\ Head(l) = "module.exports."
IsAlias(l) == IsNamedExport(l) /\ \E k \in 1..Len(l) : l[k] = " = csn."
IsLiteralExport(l) == IsNamedExport(l) /\ \E k \in 1..Len(l) : l[k] = " = '"
IsEnumStatement(l) == IsNamedExport(l) /\ \E k \in 1..Len(l) : l[k] = " = { "
IsBoilerplate(l) ==
    \/ l = AUTO_GEN_NOTE
    \/ l = <<"const cds = require('@sap/cds')">>
    \/ (l # <<>> /\ Head(l) = "const csn = cds.entities('")

\* the index of the one line that is `marker`, 0 when there is none or several
MarkerAt(lines, marker) ==
    LET at == {k \in 1..Len(lines) : lines[k] = <<marker>>}
    IN IF Cardinality(at) = 1 THEN CHOOSE k \in at : TRUE ELSE 0

(***************************************************************************)
(* C22: the lines toJSExports returns are the three lines of boilerplate,  *)
(* then at most one service record, then alias statements only, then the   *)
(* events, the actions and the enums, each group behind its comment line;  *)
(* the service record stands before every 'module.exports.<name> = ...'.   *)
(***************************************************************************)
C22_PartsInFixedOrder ==
    last.op = "toJSExports" =>
        LET lines == Lines(last.ret)
            ev == MarkerAt(lines, "// events")
            ac == MarkerAt(lines, "// actions")
            en == MarkerAt(lines, "// enums")
            records == {k \in 1..Len(lines) : IsServiceRecord(lines[k])}
        IN /\ 3 < ev /\ ev < ac /\ ac < en
           /\ \A k \in 1..3 : IsBoilerplate(lines[k])
           /\ Cardinality(records) <= 1
           /\ records \subseteq {4}
           /\ \A k \in 4..(ev - 1) : k \in records \/ IsAlias(lines[k])
           /\ \A k \in (ev + 1)..(ac - 1) : IsLiteralExport(lines[k])
           /\ \A k \in (ac + 1)..(en - 1) : IsLiteralExport(lines[k])
           /\ \A k \in (en + 1)..(Len(lines) - 1) : IsEnumStatement(lines[k])
           /\ lines[Len(lines)] = <<>>
           /\ \A r \in records, k \in 1..Len(lines) : IsNamedExport(lines[k]) => r < k

\* a stub with a service record, an alias and an event
C22_Witness ==
    /\ last.op = "toJSExports"
    /\ \E r, a, v \in 1..Len(Lines(last.ret)) :
        /\ IsServiceRecord(Lines(last.ret)[r])
        /\ IsAlias(Lines(last.ret)[a])
        /\ IsLiteralExport(Lines(last.ret)[v])

(***************************************************************************)
(* SpecEvents: addEvent, addFunction and addAction with names out of small *)
(* sets, the same name more than once as well, and toJSExports; `added`    *)
(* keeps the calls in their order.                                         *)
(***************************************************************************)
EventNames == {<<"Ev">>, <<"Created">>}
EventNamespaces == {<<"a", ".", "b", ".">>, <<"c", ".">>}

AddAnyEvent ==
    /\ calls < MaxCalls
    /\ \E name \in EventNames, ns \in EventNamespaces :
        /\ sf' = addEvent(sf, name, ns \o name)
        /\ added' = Append(added, [op |-> "addEvent", name |-> name, fq |-> ns \o name])
    /\ last' = [op |-> "addEvent", threw |-> FALSE]
    /\ calls' = calls + 1
    /\ UNCHANGED <<wo, lib, bufVars, orderVars, pathSep, refs, early, phase>>

AddNamedFunction ==
    /\ calls < MaxCalls
    /\ \E name \in LambdaNames :
        /\ sf' = addFunction(sf, name, Parameters, <<"number">>)
        /\ added' = Append(added, [op |-> "addFunction", name |-> name])
    /\ last' = [op |-> "addFunction", threw |-> FALSE]
    /\ calls' = calls + 1
    /\ UNCHANGED <<wo, lib, bufVars, orderVars, pathSep, refs, early, phase>>

AddNamedAction ==
    /\ calls < MaxCalls
    /\ \E name \in LambdaNames :
        /\ sf' = addAction(sf, name, Parameters, <<"number">>)
        /\ added' = Append(added, [op |-> "addAction", name |-> name])
    /\ last' = [op |-> "addAction", threw |-> FALSE]
    /\ calls' = calls + 1
    /\ UNCHANGED <<wo, lib, bufVars, orderVars, pathSep, refs, early, phase>>

NextEvents == AddAnyEvent \/ AddNamedFunction \/ AddNamedAction \/ ToJSExports

SpecEvents == Init /\ [][NextEvents]_vars

\* the lines of a runtime stub after line `from` and before line `to`
Between(lines, from, to) == SubSeq(lines, from + 1, to - 1)

\* the assignment of a string literal to an export
LiteralExport(name, literal) == <<"module.exports.">> \o name \o <<" = '">> \o literal \o <<"'">>

(***************************************************************************)
(* C23: the events section of the text toJSExports returns is one          *)
(* assignment per addEvent call, of the qualified name as a string literal *)
(* to the local name, and the actions section one assignment per           *)
(* addFunction or addAction call, of the name as a string literal to the   *)
(* name; each section in the order of the calls.                           *)
(***************************************************************************)
C23_OneAssignmentPerEventAndAction ==
    last.op = "toJSExports" =>
        LET lines == Lines(last.ret)
            ev == MarkerAt(lines, "// events")
            ac == MarkerAt(lines, "// actions")
            en == MarkerAt(lines, "// enums")
            events == SelectSeq(added, LAMBDA c : c.op = "addEvent")
            actions == SelectSeq(added, LAMBDA c : c.op \in {"addFunction", "addAction"})
        IN /\ Between(lines, ev, ac)
                = [k \in 1..Len(events) |-> LiteralExport(events[k].name, events[k].fq)]
           /\ Between(lines, ac, en)
                = [k \in 1..Len(actions) |-> LiteralExport(actions[k].name, actions[k].name)]

\* an event added twice, and a function
C23_Witness ==
    /\ last.op = "toJSExports"
    /\ \E i, j, k \in 1..Len(added) :
        /\ i < j
        /\ added[i] = added[j]
        /\ added[i].op = "addEvent"
        /\ added[k].op = "addFunction"

(***************************************************************************)
(* SpecNamespaces: getSubNamespace is called with any of a few names, one  *)
(* of them more than once, before any serialization; among the names are   *)
(* two that every JavaScript object inherits.                              *)
(***************************************************************************)
SubNamespaceNames == {<<"N1">>, <<"N2">>, <<"N3">>} \cup ObjectPrototypeNames

GetAnySubNamespace == GetSubNamespaceFrom(SubNamespaceNames)

NextNamespaces == GetAnySubNamespace

SpecNamespaces == Init /\ [][NextNamespaces]_vars

\* the entries of a dictionary under `key`
EntriesOf(obj, key) == {i \in 1..Len(obj) : obj[i].key = key}

(***************************************************************************)
(* C24: after a getSubNamespace call before serialization the name has     *)
(* exactly one buffer, the one the call returned; with nothing written     *)
(* through it, its one line is the scope-opening line of the name and its  *)
(* indent prefix one unit, after a repeated request as after the first.    *)
(***************************************************************************)
C24_OneOpenedBufferPerName ==
    last.op = "getSubNamespace" =>
        /\ ~last.threw
        /\ Cardinality(EntriesOf(sf.namespaces, last.name)) = 1
        /\ last.ret = Lookup(sf.namespaces, last.name)
        /\ last.ret.parts = << <<"export namespace ">> \o last.name \o <<" {">> >>
        /\ last.ret.currentIndent = DefaultIndentation

(***************************************************************************)
(* SpecImportOrder: any sequence of addImport calls on a file of one of a  *)
(* few paths, and toTypeDefs; `added` keeps the calls in their order.      *)
(***************************************************************************)
AddLoggedImport ==
    /\ calls < MaxCalls
    /\ \E imp \in ImportPaths :
        /\ sf' = addImport(sf, imp)
        /\ added' = Append(added, [op |-> "addImport", imp |-> imp])
        /\ last' = [op |-> "addImport", threw |-> FALSE, imp |-> imp]
    /\ calls' = calls + 1
    /\ UNCHANGED <<wo, lib, bufVars, orderVars, pathSep, refs, early, phase>>

NextImportOrder == AddLoggedImport \/ ToTypeDefs

SpecImportOrder == InitImports /\ [][NextImportOrder]_vars

\* the calls that name a directory no earlier call named
FirstRegistered(cs) ==
    SelectSeq([k \in 1..Len(cs) |-> [imp |-> cs[k].imp, k |-> k]],
              LAMBDA c : \A j \in 1..(c.k - 1) :
                            DirectoryOf(cs[j].imp.parts) # DirectoryOf(c.imp.parts))

\* the import statements among the lines of a text
ImportLines(text) ==
    SelectSeq(Lines(text), LAMBDA l : l # <<>> /\ Head(l) = "import * as ")

(***************************************************************************)
(* C25: the import statements in the text toTypeDefs returns are those of  *)
(* the directories other than the file's own, in the order in which the    *)
(* addImport calls first named them, each with the Path of that first call.*)
(***************************************************************************)
C25_ImportsInFirstRegisteredOrder ==
    (last.op = "toTypeDefs" /\ ~last.threw) =>
        LET first == SelectSeq(FirstRegistered(added),
                               LAMBDA c : DirectoryOf(c.imp.parts) # DirectoryOf(sf.path.parts))
        IN ImportLines(last.ret) = [k \in 1..Len(first) |-> ImportStatement(sf, first[k].imp)]

\* two directories imported, the first of them a second time after the other
C25_Witness ==
    /\ last.op = "toTypeDefs"
    /\ Len(added) = 3
    /\ added[1] = added[3]
    /\ added[1] # added[2]
    /\ Len(ImportLines(last.ret)) = 2

(***************************************************************************)
(* C26: a toJSExports call leaves the SourceFile as it was: the list of    *)
(* inflections holds the same triples in the same order as before the      *)
(* call, and every other field is unchanged.                               *)
(***************************************************************************)
C26_ToJSExportsLeavesFileUnchanged ==
    [][last'.op = "toJSExports" =>
        /\ sf'.inflections = sf.inflections
        /\ sf' = sf]_vars

(***************************************************************************)
(* C27: when the promise of writeout is resolved, no fs.writeFile request  *)
(* writeout made is still pending, whether or not a write failed.          *)
(***************************************************************************)
C27_NoWriteInFlightWhenResolved ==
    wo.settled = "resolved" =>
        \A i \in 1..Len(wo.tasks) :
            wo.tasks[i].ts # "pending" /\ wo.tasks[i].js # "pending"

(***************************************************************************)
(* C28: whatever the indentation unit of the buffer, an outdent call made  *)
(* when more indents were made than outdents have returned does not throw, *)
(* and the indent prefix after it is the one before the matching indent.   *)
(***************************************************************************)
C28_OutdentUndoesIndent ==
    [][(last'.op = "outdent" /\ nIndent > nOutdent) =>
        /\ ~last'.threw
        /\ buf'.currentIndent = PrefixAt(buf.indentation, nIndent - nOutdent - 1)]_vars

(***************************************************************************)
(* SpecIdentifiers: addImport with Paths whose segments may hold an        *)
(* underscore ('a_b' is the tokens a, _, b), and toTypeDefs.               *)
(***************************************************************************)
IdentifierPaths ==
    {NewPath(parts, "undefined") :
        parts \in {<< <<"a">>, <<"b">> >>, << <<"a", "_", "b">> >>, << <<"a">> >>,
                   << <<"b">> >>, << <<"c">>, <<"a">> >>}}

AddIdentifierImport == AddImportFrom(IdentifierPaths)

NextIdentifiers == AddIdentifierImport \/ ToTypeDefs

SpecIdentifiers == InitImports /\ [][NextIdentifiers]_vars

\* the identifier an import statement binds
IdentifierOf(statement) ==
    LET k == CHOOSE i \in 1..Len(statement) : statement[i] = " from '"
    IN SubSeq(statement, 2, k - 1)

(***************************************************************************)
(* C29: in the text toTypeDefs returns, two import statements of different *)
(* target directories bind different identifiers.                          *)
(***************************************************************************)
C29_DistinctIdentifiersForDistinctDirectories ==
    (last.op = "toTypeDefs" /\ ~last.threw) =>
        LET statements == ImportLines(last.ret) IN
        \A i, j \in 1..Len(statements) :
            TargetOf(statements[i]) # TargetOf(statements[j])
                => IdentifierOf(statements[i]) # IdentifierOf(statements[j])

(***************************************************************************)
(* SpecShared: addInflection with triples that share a name (two singulars *)
(* of one plural), the same triple twice as well, and toJSExports.         *)
(***************************************************************************)
SharedTriples ==
    {<<<<"Book">>, <<"Books">>, <<"Books">>>>,
     <<<<"Volume">>, <<"Books">>, <<"Books">>>>,
     <<<<"Author">>, <<"Authors">>, <<"Authors">>>>,
     <<<<"Books", ".", "text">>, <<"Books", ".", "texts">>, <<"Books", ".", "texts">>>>}

AddSharedInflection == AddInflectionFrom(SharedTriples)

NextShared == AddSharedInflection \/ ToJSExports

SpecShared == Init /\ [][NextShared]_vars

\* the registered triples that yield the statement
Yielding(triples, statement) ==
    {k \in 1..Len(triples) :
        \E name \in Names(triples[k]) : Assignment(name, triples[k][3]) = statement}

(***************************************************************************)
(* C30, as stated: no alias assignment line occurs twice in the text       *)
(* toJSExports returns.                                                    *)
(***************************************************************************)
C30_NoAliasLineTwice ==
    last.op = "toJSExports" =>
        LET lines == AliasLines(last.ret) IN
        \A i, j \in 1..Len(lines) : lines[i] = lines[j] => i = j

(***************************************************************************)
(* C30, amended: an alias assignment line occurs in the text as many times *)
(* as there are registered triples that yield it: never twice for one      *)
(* triple, and once for each of two triples that share the name (or for    *)
(* each registration of the same triple).                                  *)
(***************************************************************************)
C30_OnceForEachYieldingTriple ==
    last.op = "toJSExports" =>
        LET lines == AliasLines(last.ret) IN
        /\ \A i \in 1..Len(lines) :
              Count(lines, lines[i]) = Cardinality(Yielding(last.registered, lines[i]))
        /\ \A k \in 1..Len(last.registered) :
              \A name \in Names(last.registered[k]) :
                  Count(lines, Assignment(name, last.registered[k][3])) >= 1

\* two different triples of one plural were registered: its line is there twice
C30_Witness ==
    /\ last.op = "toJSExports"
    /\ \E i, j \in 1..Len(last.registered) :
        /\ last.registered[i][1] # last.registered[j][1]
        /\ last.registered[i][2] = last.registered[j][2]
        /\ Count(AliasLines(last.ret), Assignment(last.registered[i][2], last.registered[i][3])) = 2

====
